---------------------------- MODULE Spec2Model ----------------------------
(***************************************************************************)
(* spdxSummarizer: the tag/value tokenizer (tvFileLoader.py), the SPDX     *)
(* record assembler fed by it, and the Fossology report parser             *)
(* (parsetools.py).                                                        *)
(*                                                                         *)
(* A Python str is a sequence of one-character strings, so that strip,     *)
(* find, slicing, split and join are computed as Python computes them.     *)
(***************************************************************************)
EXTENDS Integers, Sequences, FiniteSets, TLC

VARIABLES
  \* TVFileLoader fields
  loaderState, tvList, currentLineNum, currentTag, currentValue,
  \* history of the calls made on the loader
  lastOp,       \* "init" | "reset" | "parse" | "final": the last call
  lastLine,     \* the argument of the last parseNextLine call
  prevState,    \* loaderState when the last call was made
  finalRet,     \* what the last call returned, when it was getFinalTVList
  malformedAt,  \* number of the first colon-less line met in READY (0: none)
  blockFrags,   \* the raw fragments of the <text> block being read or just closed
  openLine,     \* the last line given to parseNextLine in READY: in MIDTEXT,
                \* the line that opened the block
  calls,        \* parseNextLine calls made so far
  \* parseSPDXReport: the tokenizer above fed line by line, then the assembler
  d1pc,         \* "reading" | "done"
  d1fds,        \* the records returned
  \* parseFossologySPDXReport: its locals and its place in the code
  d2state,      \* ParserState
  tagdict,      \* tag -> list of values of the record being read
  fds,          \* the FileData records built so far
  d2pc,         \* "loop" | "lookahead" | "returned" | "raised"
  d2k, d2v,     \* k and v while the <text> lookahead runs
  d2exc,        \* the exception that left the function, when d2pc = "raised"
  d2ret,        \* the value returned, when d2pc = "returned"
  d2file,       \* the lines of the report, when the report is fixed beforehand
  \* history of the lines read
  d2lastLine,   \* the last line read
  d2entries,    \* the tag entries of the record block being read, in source order
  d2closed,     \* the tag entries of the block the last sentinel closed
  d2n,          \* lines read so far
  d2skipped,    \* lines read and discarded in READY
  \* removePrefixes: the filenames of the records it is called on
  rpFds,        \* fd.filename of each record of the list (None or a path)
  rpPc,         \* "idle" | "returned" | "raised": how the last call ended
  rpPrefix,     \* the prefix the last call returned
  rpExc,        \* the exception that left the last call, when rpPc = "raised"
  rpOrig,       \* the filenames as they were when the last call was made
  rpCalls,      \* calls made so far
  \* FTDatabase: the SQLite database behind the connection
  db,           \* what the connection sees: config "initialized" and the tables,
                \* each table the rows in the order they were inserted
  dbSaved,      \* what the last commit left
  dbRet,        \* what the last call returned
  dbOp,         \* the last call made and its arguments
  dbCalls,      \* add calls made so far
  dbPending,    \* <<table, row>> of the rows added with commit=False since the
                \* last commit or rollback, as the calls and their results tell
  \* FTLicenseStore: its fields, each dict the items in insertion order
  lsAttached,   \* whether self.db is a database (not None)
  lsCategories, lsLicenses, lsConversions,
  lsRet,        \* what the last call on the store returned
  lsOp,         \* the last call made on the store and its arguments
  lsWrites,     \* the add calls the last call on the store made, in order
  lsCalls       \* create calls made so far

tokVars == <<loaderState, tvList, currentLineNum, currentTag, currentValue>>
histVars == <<lastOp, lastLine, prevState, finalRet, malformedAt, blockFrags, openLine, calls>>
d2Vars == <<d2state, tagdict, fds, d2pc, d2k, d2v, d2exc, d2ret>>
d2Hist == <<d2lastLine, d2entries, d2closed, d2n, d2skipped>>
d1Vars == <<d1pc, d1fds>>
rpVars == <<rpFds, rpPc, rpPrefix, rpExc, rpOrig, rpCalls>>
dbVars == <<db, dbSaved, dbRet, dbOp, dbCalls, dbPending>>
lsFields == <<lsAttached, lsCategories, lsLicenses, lsConversions>>
lsVars == <<lsFields, lsRet, lsOp, lsWrites, lsCalls>>
vars == <<tokVars, histVars, d1Vars, d2Vars, d2file, d2Hist, rpVars, dbVars, lsVars>>

\* ------------------------------------------------------------ bounds
MaxCalls == 4
MaxD2Lines == 5
MaxBlocks == 2
MaxNames == 3
MaxApplies == 3
MaxDbCalls == 4
MaxCreates == 3
MaxOtherAdds == 1

\* ------------------------------------------------------------ str
WS == {" ", "\t", "\n", "\r"}
Colon == <<":">>
Hash == <<"#">>
Semicolon == <<";">>
NL == <<"\n">>
TextOpen == <<"<", "t", "e", "x", "t", ">">>
TextClose == <<"<", "/", "t", "e", "x", "t", ">">>

Minimum(S) == CHOOSE x \in S : \A y \in S : x <= y

RECURSIVE LStrip(_)
LStrip(s) == IF s # <<>> /\ Head(s) \in WS THEN LStrip(Tail(s)) ELSE s

RECURSIVE RStrip(_)
RStrip(s) ==
  IF s # <<>> /\ s[Len(s)] \in WS THEN RStrip(SubSeq(s, 1, Len(s) - 1)) ELSE s

\* str.strip()
Strip(s) == RStrip(LStrip(s))

\* s[a:b] and s[a:], 0 <= a
Slice(s, a, b) == SubSeq(s, a + 1, b)
SliceFrom(s, a) == SubSeq(s, a + 1, Len(s))

\* str.find(sub): the lowest 0-based index where sub occurs, or -1
Find(s, sub) ==
  LET hits == {i \in 0..(Len(s) - Len(sub)) : SubSeq(s, i + 1, i + Len(sub)) = sub}
  IN  IF hits = {} THEN -1 ELSE Minimum(hits)

StartsWith(s, sub) == Len(sub) <= Len(s) /\ SubSeq(s, 1, Len(sub)) = sub
EndsWith(s, sub) ==
  Len(sub) <= Len(s) /\ SubSeq(s, Len(s) - Len(sub) + 1, Len(s)) = sub

\* ------------------------------------------------------------ TVFileLoader
RetList(l) == [kind |-> "list", list |-> l]
RetNone == [kind |-> "none", list |-> <<>>]
RetVoid == [kind |-> "void", list |-> <<>>]

Reset ==
  /\ loaderState' = "READY"
  /\ tvList' = <<>>
  /\ currentLineNum' = 0
  /\ currentTag' = <<>>
  /\ currentValue' = <<>>

PushPair_KeepsBuffer(tag, value) ==
  /\ tvList' = Append(tvList, <<tag, value>>)
  /\ currentTag' = tag
  /\ currentValue' = value
  /\ loaderState' = "READY"

\* push the pair, _parseResetTagValue(), back to READY
PushPair(tag, value) ==
  /\ tvList' = Append(tvList, <<tag, value>>)
  /\ currentTag' = <<>>
  /\ currentValue' = <<>>
  /\ loaderState' = "READY"

ParseNextLineFromMidtext_SkipsBlank(line) ==
  LET endTagLoc == Find(line, TextClose)
  IN  IF endTagLoc = -1
      THEN /\ currentValue' = IF Strip(line) = <<>> THEN currentValue
                              ELSE currentValue \o line \o NL
           /\ UNCHANGED <<loaderState, tvList, currentTag>>
      ELSE PushPair(currentTag, currentValue \o Slice(line, 0, endTagLoc))

ParseNextLineFromMidtext_KeepMarker(line) ==
  LET endTagLoc == Find(line, TextClose)
  IN  IF endTagLoc = -1
      THEN /\ currentValue' = currentValue \o line \o NL
           /\ UNCHANGED <<loaderState, tvList, currentTag>>
      ELSE PushPair(currentTag, currentValue \o line)

ParseNextLineFromMidtext(line) ==
  LET endTagLoc == Find(line, TextClose)
  IN  IF endTagLoc = -1
      THEN /\ currentValue' = currentValue \o line \o NL
           /\ UNCHANGED <<loaderState, tvList, currentTag>>
      ELSE PushPair(currentTag, currentValue \o Slice(line, 0, endTagLoc))

ParseNextLineFromReady_SkipNoColon(line) ==
  LET stripped == Strip(line)
      colonLoc == Find(stripped, Colon)
      tag == Slice(stripped, 0, colonLoc)
      remainder == Strip(SliceFrom(stripped, colonLoc + 1))
      startTagLoc == Find(remainder, TextOpen)
      afterOpen == SliceFrom(remainder, startTagLoc + 6)
      endTagLoc == Find(afterOpen, TextClose)
  IN  IF stripped = <<>> \/ StartsWith(stripped, Hash) \/ colonLoc = -1
      THEN UNCHANGED <<loaderState, tvList, currentTag, currentValue>>
      ELSE IF startTagLoc = -1
      THEN PushPair(tag, remainder)
      ELSE IF endTagLoc = -1
      THEN /\ currentTag' = tag
           /\ currentValue' = afterOpen \o NL
           /\ loaderState' = "MIDTEXT"
           /\ UNCHANGED tvList
      ELSE PushPair(tag, Slice(afterOpen, 0, endTagLoc))

ParseNextLineFromReady(line) ==
  LET stripped == Strip(line)
      colonLoc == Find(stripped, Colon)
      tag == Slice(stripped, 0, colonLoc)
      remainder == Strip(SliceFrom(stripped, colonLoc + 1))
      startTagLoc == Find(remainder, TextOpen)
      afterOpen == SliceFrom(remainder, startTagLoc + 6)
      endTagLoc == Find(afterOpen, TextClose)
  IN  IF stripped = <<>>
      THEN UNCHANGED <<loaderState, tvList, currentTag, currentValue>>
      ELSE IF StartsWith(stripped, Hash)
      THEN UNCHANGED <<loaderState, tvList, currentTag, currentValue>>
      ELSE IF colonLoc = -1
      THEN /\ loaderState' = "ERROR"
           /\ UNCHANGED <<tvList, currentTag, currentValue>>
      ELSE IF startTagLoc = -1
      THEN PushPair(tag, remainder)
      ELSE IF endTagLoc = -1
      THEN /\ currentTag' = tag
           /\ currentValue' = afterOpen \o NL
           /\ loaderState' = "MIDTEXT"
           /\ UNCHANGED tvList
      ELSE PushPair(tag, Slice(afterOpen, 0, endTagLoc))

ParseNextLine_NoBail(line) ==
  /\ currentLineNum' = currentLineNum + 1
  /\ IF loaderState = "MIDTEXT"
     THEN ParseNextLineFromMidtext(line)
     ELSE ParseNextLineFromReady(line)

ParseNextLine(line) ==
  /\ currentLineNum' = currentLineNum + 1
  /\ IF loaderState = "ERROR"
     THEN UNCHANGED <<loaderState, tvList, currentTag, currentValue>>
     ELSE IF loaderState = "MIDTEXT"
     THEN ParseNextLineFromMidtext(line)
     ELSE IF loaderState = "READY"
     THEN ParseNextLineFromReady(line)
     ELSE /\ loaderState' = "ERROR"
          /\ UNCHANGED <<tvList, currentTag, currentValue>>

IsError == loaderState = "ERROR"

GetFinalTVList_PartialList ==
  /\ finalRet' = IF loaderState = "ERROR" THEN RetNone ELSE RetList(tvList)
  /\ UNCHANGED tokVars

\* the value returned is finalRet'
GetFinalTVList ==
  IF loaderState = "READY"
  THEN /\ finalRet' = RetList(tvList)
       /\ UNCHANGED tokVars
  ELSE IF loaderState = "ERROR"
  THEN /\ finalRet' = RetNone
       /\ UNCHANGED tokVars
  ELSE /\ loaderState = "MIDTEXT"
       /\ loaderState' = "ERROR"
       /\ finalRet' = RetNone
       /\ UNCHANGED <<tvList, currentLineNum, currentTag, currentValue>>

\* ------------------------------------------------------------ the lines fed
\* what the claims say of a line, read off the line itself
NonWS(line) == {i \in 1..Len(line) : line[i] \notin WS}
IsBlankLine(line) == NonWS(line) = {}
IsCommentLine(line) == ~IsBlankLine(line) /\ line[Minimum(NonWS(line))] = "#"
HasColon(line) == \E i \in 1..Len(line) : line[i] = ":"
IsMalformedLine(line) ==
  ~IsBlankLine(line) /\ ~IsCommentLine(line) /\ ~HasColon(line)
Trim(s) ==
  IF NonWS(s) = {} THEN <<>>
  ELSE SubSeq(s, Minimum(NonWS(s)), CHOOSE i \in NonWS(s) : \A j \in NonWS(s) : j <= i)
Contains(s, mark) == Find(s, mark) # -1
\* the text before / after the first occurrence of mark
Before(s, mark) == SubSeq(s, 1, Find(s, mark))
After(s, mark) == SubSeq(s, Find(s, mark) + Len(mark) + 1, Len(s))
\* a tag line whose value opens a <text> block, and the raw text after the marker
OpensBlock(line) ==
  /\ ~IsBlankLine(line) /\ ~IsCommentLine(line) /\ HasColon(line)
  /\ Contains(After(line, Colon), TextOpen)
OpeningFragment(line) == After(After(line, Colon), TextOpen)
\* the line, met in loader state st, holds the closing marker of a block
ClosesBlock(st, line) ==
  IF st = "MIDTEXT" THEN Contains(line, TextClose)
  ELSE st = "READY" /\ OpensBlock(line) /\ Contains(OpeningFragment(line), TextClose)
NextBlockFrags(st, frags, line) ==
  IF st = "READY"
  THEN IF ~OpensBlock(line) THEN <<>>
       ELSE IF Contains(OpeningFragment(line), TextClose)
       THEN <<Before(OpeningFragment(line), TextClose)>>
       ELSE <<OpeningFragment(line)>>
  ELSE IF st = "MIDTEXT"
  THEN Append(frags, IF Contains(line, TextClose) THEN Before(line, TextClose) ELSE line)
  ELSE <<>>
RECURSIVE JoinNL(_)
JoinNL(frags) ==
  IF frags = <<>> THEN <<>>
  ELSE IF Len(frags) = 1 THEN frags[1]
  ELSE frags[1] \o NL \o JoinNL(Tail(frags))
IsPrefix(a, b) == Len(a) <= Len(b) /\ SubSeq(b, 1, Len(a)) = a
Last(s) == s[Len(s)]

TokLines == {
  <<" ">>,
  <<"#", "c", ":", "d">>,
  <<"a", "b">>,
  <<" ", "T", ":", " ", "h", "i", " ">>,
  <<"T", " ", ":", " ", "a", ":", "b">>,
  <<"T", ":", " ", "<", "t", "e", "x", "t", ">", "l", "1", " ">>,
  <<"l", "2", "<", "/", "t", "e", "x", "t", ">">>,
  <<"U", ":", " ", "<", "t", "e", "x", "t", ">", " ", "x", " ", "<", "/", "t", "e", "x", "t", ">", "z">>,
  <<"V", ":", " ", "<", "t", "e", "x", "t", ">", "l", "1">>,
  <<" ", "m", " ">>
}

\* ------------------------------------------------------------ parsetools.py
FileSentinel == <<"#", "#", "F", "i", "l", "e">>
Terminator == <<"#", "#", "-", "-", "-", "-", "-", "-", "-", "-", "-", "-", "-", "-", "-", "-", "-", "-", "-", "-", "-", "-", "-", "-", "-", "-", "-">>
FileNameKey == <<"F", "i", "l", "e", "N", "a", "m", "e">>
LicenseConcludedKey == <<"L", "i", "c", "e", "n", "s", "e", "C", "o", "n", "c", "l", "u", "d", "e", "d">>
FileChecksumKey == <<"F", "i", "l", "e", "C", "h", "e", "c", "k", "s", "u", "m">>
SHA1 == <<"S", "H", "A", "1">>
MD5 == <<"M", "D", "5">>

\* None and a value that is not None
None == <<>>
Some(x) == <<x>>

\* str.split(':', 1)
Split1(s) ==
  LET i == Find(s, Colon)
  IN  IF i = -1 THEN <<s>> ELSE <<Slice(s, 0, i), SliceFrom(s, i + 1)>>

\* sep.join(list)
RECURSIVE Join(_, _)
Join(sep, list) ==
  IF list = <<>> THEN <<>>
  ELSE IF Len(list) = 1 THEN list[1]
  ELSE list[1] \o sep \o Join(sep, Tail(list))

\* a dict of lists: a function from the keys it holds
EmptyDict == [k \in {} |-> <<>>]
HasKey(d, k) == k \in DOMAIN d

DictAppend_Overwrite(d, k, v) ==
  [x \in DOMAIN d \cup {k} |-> IF x = k THEN <<v>> ELSE d[x]]

\* if tagdict.get(k): tagdict[k].append(v) else: tagdict[k] = [v]
DictAppend(d, k, v) ==
  IF HasKey(d, k) /\ d[k] # <<>>
  THEN [d EXCEPT ![k] = Append(@, v)]
  ELSE [x \in DOMAIN d \cup {k} |-> IF x = k THEN <<v>> ELSE d[x]]

JoinedOrNone_EmptyString(d, key) ==
  IF HasKey(d, key) /\ d[key] # <<>> THEN Some(Join(Semicolon, d[key])) ELSE Some(<<>>)

\* ";".join(tagdict.get(key)), or None
JoinedOrNone(d, key) ==
  IF HasKey(d, key) /\ d[key] # <<>> THEN Some(Join(Semicolon, d[key])) ELSE None

ChecksumStep_KeepFirst(acc, checksum_str) ==
  LET cs == Split1(checksum_str)
      cs_type == Strip(cs[1])
      cs_value == Strip(cs[2])
  IN  IF Len(cs) # 2 THEN acc
      ELSE IF cs_type = SHA1 /\ acc.sha1 = None THEN [acc EXCEPT !.sha1 = Some(cs_value)]
      ELSE IF cs_type = MD5 /\ acc.md5 = None THEN [acc EXCEPT !.md5 = Some(cs_value)]
      ELSE acc

\* one turn of the loop over the checksum strings; acc holds cs_sha1 and cs_md5
ChecksumStep(acc, checksum_str) ==
  LET cs == Split1(checksum_str)
      cs_type == Strip(cs[1])
      cs_value == Strip(cs[2])
  IN  IF Len(cs) # 2 THEN acc
      ELSE IF cs_type = SHA1 THEN [acc EXCEPT !.sha1 = Some(cs_value)]
      ELSE IF cs_type = MD5 THEN [acc EXCEPT !.md5 = Some(cs_value)]
      ELSE acc

RECURSIVE ScanChecksums(_, _)
ScanChecksums(acc, checksums) ==
  IF checksums = <<>> THEN acc
  ELSE ScanChecksums(ChecksumStep(acc, Head(checksums)), Tail(checksums))

FileData(filename, license, md5, sha1) ==
  [filename |-> filename, license |-> license, md5 |-> md5, sha1 |-> sha1]

\* the record built from the tags of the block (the block holds a FileChecksum)
BuildRecord(d) ==
  LET cs == ScanChecksums([sha1 |-> None, md5 |-> None], d[FileChecksumKey])
  IN  FileData(JoinedOrNone(d, FileNameKey), JoinedOrNone(d, LicenseConcludedKey),
               cs.md5, cs.sha1)

CloseRecord_NoChecksumIsNone(switch_to_done) ==
  /\ fds' = Append(fds,
       IF HasKey(tagdict, FileChecksumKey) THEN BuildRecord(tagdict)
       ELSE FileData(JoinedOrNone(tagdict, FileNameKey),
                     JoinedOrNone(tagdict, LicenseConcludedKey), None, None))
  /\ tagdict' = EmptyDict
  /\ IF switch_to_done
     THEN /\ d2state' = "DONE"
          /\ d2pc' = "returned"
          /\ d2ret' = RetList(fds')
     ELSE UNCHANGED <<d2state, d2pc, d2ret>>
  /\ UNCHANGED <<d2k, d2v, d2exc>>

CloseRecord_KeepTags(switch_to_done) ==
  IF ~HasKey(tagdict, FileChecksumKey)
  THEN /\ d2pc' = "raised"
       /\ d2exc' = "TypeError"
       /\ UNCHANGED <<d2state, tagdict, fds, d2k, d2v, d2ret>>
  ELSE /\ fds' = Append(fds, BuildRecord(tagdict))
       /\ IF switch_to_done
          THEN /\ d2state' = "DONE"
               /\ d2pc' = "returned"
               /\ d2ret' = RetList(fds')
          ELSE UNCHANGED <<d2state, d2pc, d2ret>>
       /\ UNCHANGED <<tagdict, d2k, d2v, d2exc>>

\* if end_current_record: ...; if switch_to_done: ...
\* iterating tagdict.get("FileChecksum") raises TypeError when it is None
CloseRecord(switch_to_done) ==
  IF ~HasKey(tagdict, FileChecksumKey)
  THEN /\ d2pc' = "raised"
       /\ d2exc' = "TypeError"
       /\ UNCHANGED <<d2state, tagdict, fds, d2k, d2v, d2ret>>
  ELSE /\ fds' = Append(fds, BuildRecord(tagdict))
       /\ tagdict' = EmptyDict
       /\ IF switch_to_done
          THEN /\ d2state' = "DONE"
               /\ d2pc' = "returned"
               /\ d2ret' = RetList(fds')
          ELSE UNCHANGED <<d2state, d2pc, d2ret>>
       /\ UNCHANGED <<d2k, d2v, d2exc>>

TagLine_NoColonIsFatal(line) ==
  LET result == Split1(line)
      k == Strip(result[1])
      v == Strip(result[2])
  IN  IF Len(result) # 2
      THEN /\ d2pc' = "raised"
           /\ d2exc' = "ValueError"
           /\ UNCHANGED <<d2state, tagdict, fds, d2k, d2v, d2ret>>
      ELSE IF StartsWith(v, TextOpen) /\ ~EndsWith(v, TextClose)
      THEN /\ d2pc' = "lookahead"
           /\ d2k' = k
           /\ d2v' = v
           /\ UNCHANGED <<d2state, tagdict, fds, d2exc, d2ret>>
      ELSE /\ tagdict' = DictAppend(tagdict, k, v)
           /\ UNCHANGED <<d2state, fds, d2pc, d2k, d2v, d2exc, d2ret>>

\* a line of a record block that is no sentinel: tag:value, or logged and ignored
TagLine(line) ==
  LET result == Split1(line)
      k == Strip(result[1])
      v == Strip(result[2])
  IN  IF Len(result) # 2
      THEN UNCHANGED d2Vars
      ELSE IF StartsWith(v, TextOpen) /\ ~EndsWith(v, TextClose)
      THEN /\ d2pc' = "lookahead"
           /\ d2k' = k
           /\ d2v' = v
           /\ UNCHANGED <<d2state, tagdict, fds, d2exc, d2ret>>
      ELSE /\ tagdict' = DictAppend(tagdict, k, v)
           /\ UNCHANGED <<d2state, fds, d2pc, d2k, d2v, d2exc, d2ret>>

LoopLine_TagsInReady(raw) ==
  LET line == Strip(raw)
  IN  IF d2state = "READY" /\ line = FileSentinel
      THEN /\ d2state' = "IN_FILE_SET"
           /\ UNCHANGED <<tagdict, fds, d2pc, d2k, d2v, d2exc, d2ret>>
      ELSE IF d2state \in {"READY", "IN_FILE_SET"}
      THEN IF line = <<>> THEN UNCHANGED d2Vars
           ELSE IF line = Terminator THEN CloseRecord(TRUE)
           ELSE IF line = FileSentinel THEN CloseRecord(FALSE)
           ELSE TagLine(line)
      ELSE UNCHANGED d2Vars

\* one turn of `for line in f`
LoopLine(raw) ==
  LET line == Strip(raw)
  IN  IF d2state = "READY"
      THEN IF line = FileSentinel
           THEN /\ d2state' = "IN_FILE_SET"
                /\ UNCHANGED <<tagdict, fds, d2pc, d2k, d2v, d2exc, d2ret>>
           ELSE UNCHANGED d2Vars
      ELSE IF d2state = "IN_FILE_SET"
      THEN IF line = <<>> THEN UNCHANGED d2Vars
           ELSE IF line = Terminator THEN CloseRecord(TRUE)
           ELSE IF line = FileSentinel THEN CloseRecord(FALSE)
           ELSE TagLine(line)
      ELSE UNCHANGED d2Vars

LookaheadLine_StopsAtSentinel(raw) ==
  LET nextline == Strip(raw)
      v == d2v \o nextline
  IN  IF EndsWith(nextline, TextClose) \/ nextline \in {FileSentinel, Terminator}
      THEN /\ tagdict' = DictAppend(tagdict, d2k, v)
           /\ d2pc' = "loop"
           /\ d2k' = <<>>
           /\ d2v' = <<>>
           /\ UNCHANGED <<d2state, fds, d2exc, d2ret>>
      ELSE /\ d2v' = v
           /\ UNCHANGED <<d2state, tagdict, fds, d2pc, d2k, d2exc, d2ret>>

\* one turn of `while not found_end_tag`, on the line next(f) gives
LookaheadLine(raw) ==
  LET nextline == Strip(raw)
      v == d2v \o nextline
  IN  IF EndsWith(nextline, TextClose)
      THEN /\ tagdict' = DictAppend(tagdict, d2k, v)
           /\ d2pc' = "loop"
           /\ d2k' = <<>>
           /\ d2v' = <<>>
           /\ UNCHANGED <<d2state, fds, d2exc, d2ret>>
      ELSE /\ d2v' = v
           /\ UNCHANGED <<d2state, tagdict, fds, d2pc, d2k, d2exc, d2ret>>

\* the report yields its next line
ReadLine(raw) ==
  /\ d2pc \in {"loop", "lookahead"}
  /\ IF d2pc = "loop" THEN LoopLine(raw) ELSE LookaheadLine(raw)

EndOfFile_ClosesOpenBlock ==
  /\ d2pc \in {"loop", "lookahead"}
  /\ IF d2pc = "loop"
     THEN /\ d2pc' = "returned"
          /\ fds' = IF d2state = "IN_FILE_SET" /\ HasKey(tagdict, FileChecksumKey)
                    THEN Append(fds, BuildRecord(tagdict)) ELSE fds
          /\ d2ret' = RetList(fds')
          /\ UNCHANGED <<d2state, tagdict, d2k, d2v, d2exc>>
     ELSE /\ d2pc' = "raised"
          /\ d2exc' = "StopIteration"
          /\ UNCHANGED <<d2state, tagdict, fds, d2k, d2v, d2ret>>

\* the report has no further line: the loop ends and fds is returned, or
\* next(f) raises StopIteration inside the lookahead
EndOfFile ==
  /\ d2pc \in {"loop", "lookahead"}
  /\ IF d2pc = "loop"
     THEN /\ d2pc' = "returned"
          /\ d2ret' = RetList(fds)
          /\ UNCHANGED <<d2state, tagdict, fds, d2k, d2v, d2exc>>
     ELSE /\ d2pc' = "raised"
          /\ d2exc' = "StopIteration"
          /\ UNCHANGED <<d2state, tagdict, fds, d2k, d2v, d2ret>>

\* open() or a read fails: except (IOError, OSError, FileNotFoundError)
IOFailure ==
  /\ d2pc \in {"loop", "lookahead"}
  /\ d2pc' = "returned"
  /\ d2ret' = RetList(<<>>)
  /\ d2exc' = "IOError"
  /\ UNCHANGED <<d2state, tagdict, fds, d2k, d2v>>

\* ------------------------------------------------------------ removePrefixes
Slash == <<"/">>
Dot == <<".">>

\* str.split(sep), sep one character
RECURSIVE SplitSep(_, _)
SplitSep(s, sep) ==
  LET i == Find(s, sep)
  IN  IF i = -1 THEN <<s>> ELSE <<Slice(s, 0, i)>> \o SplitSep(SliceFrom(s, i + 1), sep)

\* os.path.commonpath (posixpath): the path's components, without the empty
\* ones and without "."
Components(path) ==
  SelectSeq(SplitSep(path, Slash), LAMBDA c : c # <<>> /\ c # Dot)
\* p[:1] == sep
IsAbs(path) == Len(path) >= 1 /\ Slice(path, 0, 1) = Slash

\* the components the least and the greatest component list have in common at
\* their start, which are those every list starts with
CommonComponents(lists) ==
  LET first == lists[1]
      shared == {n \in 0..Len(first) :
                   \A i \in 1..Len(lists) :
                     Len(lists[i]) >= n /\ SubSeq(lists[i], 1, n) = SubSeq(first, 1, n)}
  IN  SubSeq(first, 1, CHOOSE n \in shared : \A m \in shared : m <= n)

\* the exception os.path.commonpath raises on the filenames, or "none"
CommonPathRaises(names) ==
  IF \E i \in 1..Len(names) : names[i] = None THEN "TypeError"
  ELSE IF names = <<>> THEN "ValueError"
  ELSE IF \E i, j \in 1..Len(names) : IsAbs(names[i][1]) # IsAbs(names[j][1])
  THEN "ValueError"
  ELSE "none"

\* os.path.commonpath(paths), when it raises nothing
CommonPath(paths) ==
  (IF IsAbs(paths[1]) THEN Slash ELSE <<>>)
    \o Join(Slash, CommonComponents([i \in 1..Len(paths) |-> Components(paths[i])]))

\* removePrefixes(fds)
RemovePrefixes ==
  LET prefix == CommonPath([i \in 1..Len(rpFds) |-> rpFds[i][1]])
  IN  IF CommonPathRaises(rpFds) # "none"
      THEN /\ rpPc' = "raised"
           /\ rpExc' = CommonPathRaises(rpFds)
           /\ UNCHANGED <<rpFds, rpPrefix>>
      ELSE /\ rpFds' = [i \in 1..Len(rpFds) |-> Some(SliceFrom(rpFds[i][1], Len(prefix)))]
           /\ rpPrefix' = prefix
           /\ rpPc' = "returned"
           /\ rpExc' = "none"

\* the filenames of the record lists removePrefixes is called on
PathNames == {
  Some(<<"s", "r", "c", "/", "a", ".", "c">>),
  Some(<<"s", "r", "c", "/", "b", ".", "c">>),
  Some(<<"s", "r", "c", "/", "a", "b", "/", "x">>),
  Some(<<"s", "r", "c", "/", "a", "c", "/", "y">>),
  Some(<<"l", "i", "b", "/", "x">>),
  Some(<<".", "/", "s", "r", "c", "/", "a", ".", "c">>),
  Some(<<"/", "s", "r", "c", "/", "a", ".", "c">>),
  None
}
NameLists == UNION {[1..n -> PathNames] : n \in 0..MaxNames}

\* ------------------------------------------------------------ dbtools.py
\* the database createDatabase leaves: config "initialized" is "no", no row
CreatedDatabase ==
  [initialized |-> "no", scans |-> <<>>, categories |-> <<>>, licenses |-> <<>>,
   conversions |-> <<>>, files |-> <<>>]

\* the ids of the rows of a table
Ids(table) == {table[i].id : i \in 1..Len(table)}
Maximum(S) == CHOOSE x \in S : \A y \in S : y <= x
\* INTEGER PRIMARY KEY without a value: one more than the largest id in the table
NextRowid(table) == IF table = <<>> THEN 1 ELSE Maximum(Ids(table)) + 1

OrderById_InsertionOrder(table) == table

\* SELECT ... ORDER BY id
OrderById(table) == SortSeq(table, LAMBDA r1, r2 : r1.id < r2.id)

IdColumn(rows) == [i \in 1..Len(rows) |-> rows[i].id]

GetScansIDList == IdColumn(OrderById(db.scans))
GetScansData == OrderById(db.scans)
GetCategoriesIDList == IdColumn(OrderById(db.categories))
GetCategoriesData == OrderById(db.categories)
GetLicensesIDList == IdColumn(OrderById(db.licenses))
GetLicensesData == OrderById(db.licenses)
GetConversionsData == OrderById(db.conversions)

\* isInitialized(), on an open connection
IsInitialized == db.initialized = "yes"

\* initializeDatabaseTables on a created database, from a JSON file that holds
\* a config with a project and no category and no conversion
InitializeDatabaseTables ==
  /\ db.initialized = "no"
  /\ db' = [db EXCEPT !.initialized = "yes"]
  /\ dbSaved' = db'
  /\ dbRet' = TRUE

\* initializeDatabaseTables on a created database, from a JSON file that holds
\* a project, one category (id 1) with one license, and one conversion to it
InitializeDatabaseTablesWithLicense ==
  /\ db = CreatedDatabase
  /\ db' = [db EXCEPT !.initialized = "yes",
                      !.categories = <<[id |-> 1, name |-> "a"]>>,
                      !.licenses = <<[id |-> 1, short_name |-> "a", category_id |-> 1]>>,
                      !.conversions = <<[id |-> 1, old_text |-> "a", new_license_id |-> 1]>>]
  /\ dbSaved' = db'
  /\ dbRet' = TRUE

\* the end of an add that inserted the row: last_insert_rowid() is returned
\* after conn.commit() when commit is set
Inserted(newdb, id, commit) ==
  /\ db' = newdb
  /\ dbSaved' = IF commit THEN newdb ELSE dbSaved
  /\ dbRet' = id

\* the end of an add whose INSERT raised: the except branch returns -1
InsertFailed ==
  /\ dbRet' = -1
  /\ UNCHANGED <<db, dbSaved>>

AddNewScan(scan_dt, desc, commit) ==
  IF ~IsInitialized
  THEN /\ dbRet' = -1
       /\ UNCHANGED <<db, dbSaved>>
  ELSE LET id == NextRowid(db.scans)
           row == [id |-> id, scan_dt |-> scan_dt, desc |-> desc]
       IN  Inserted([db EXCEPT !.scans = Append(@, row)], id, commit)

AddNewCategory_ReplacesRow(name, commit, id) ==
  LET newid == IF id = 0 THEN NextRowid(db.categories) ELSE id
      row == [id |-> newid, name |-> name]
      kept == SelectSeq(db.categories, LAMBDA r : r.id # newid)
  IN  Inserted([db EXCEPT !.categories = Append(kept, row)], newid, commit)

AddNewCategory(name, commit, id) ==
  LET newid == IF id = 0 THEN NextRowid(db.categories) ELSE id
      row == [id |-> newid, name |-> name]
  IN  IF newid \in Ids(db.categories)
      THEN InsertFailed
      ELSE Inserted([db EXCEPT !.categories = Append(@, row)], newid, commit)

AddNewLicense(short_name, category_id, commit, id) ==
  LET newid == IF id = 0 THEN NextRowid(db.licenses) ELSE id
      row == [id |-> newid, short_name |-> short_name, category_id |-> category_id]
  IN  IF newid \in Ids(db.licenses)
      THEN InsertFailed
      ELSE Inserted([db EXCEPT !.licenses = Append(@, row)], newid, commit)

AddNewConversion(old_text, new_license_id, commit, id) ==
  LET newid == IF id = 0 THEN NextRowid(db.conversions) ELSE id
      row == [id |-> newid, old_text |-> old_text, new_license_id |-> new_license_id]
  IN  IF newid \in Ids(db.conversions)
      THEN InsertFailed
      ELSE Inserted([db EXCEPT !.conversions = Append(@, row)], newid, commit)

AddNewFile(scan_id, filename, license_id, md5, sha1, commit) ==
  LET id == NextRowid(db.files)
      row == [id |-> id, scan_id |-> scan_id, filename |-> filename,
              license_id |-> license_id, md5 |-> md5, sha1 |-> sha1]
  IN  Inserted([db EXCEPT !.files = Append(@, row)], id, commit)

\* SELECT ... WHERE id = ?, fetchone(): the row, or None
GetRow(table, id) ==
  IF id \in Ids(table)
  THEN Some(table[CHOOSE i \in 1..Len(table) : table[i].id = id])
  ELSE None
GetScanData(scan_id) == GetRow(db.scans, scan_id)
GetCategoryData(category_id) == GetRow(db.categories, category_id)
GetLicenseData(license_id) == GetRow(db.licenses, license_id)
GetConversionData(conversion_id) == GetRow(db.conversions, conversion_id)
GetFileData(file_id) == GetRow(db.files, file_id)

CommitChanges ==
  /\ dbSaved' = db
  /\ UNCHANGED <<db, dbRet>>

RollbackChanges_KeepsRows ==
  /\ UNCHANGED <<db, dbSaved, dbRet>>

RollbackChanges ==
  /\ db' = dbSaved
  /\ UNCHANGED <<dbSaved, dbRet>>

\* ------------------------------------------------------------ licenses.py
\* what a method returns: None, a bool or an int
PyNone == [kind |-> "None"]
PyBool(b) == [kind |-> "bool", val |-> b]
PyInt(i) == [kind |-> "int", val |-> i]
\* the truth value `not x` tests: None, False and 0 are false
Truthy(x) ==
  CASE x.kind = "None" -> FALSE
    [] x.kind = "bool" -> x.val
    [] x.kind = "int" -> x.val # 0

\* dict[item.id] = item: a key the dict holds keeps its place
DictSet(dict, item) ==
  IF item.id \in Ids(dict)
  THEN [i \in 1..Len(dict) |-> IF dict[i].id = item.id THEN item ELSE dict[i]]
  ELSE Append(dict, item)

\* the loaders: the value returned and the dict left. With a database the
\* dict is rebuilt from the rows and the method ends without a return statement
LoadLicensesFromDB ==
  IF ~lsAttached
  THEN [ret |-> PyBool(FALSE), licenses |-> lsLicenses]
  ELSE LET rows == GetLicensesData
       IN  [ret |-> PyNone,
            licenses |-> [i \in 1..Len(rows) |->
               [id |-> rows[i].id, short_name |-> rows[i].short_name,
                category_id |-> rows[i].category_id, modified |-> FALSE]]]

LoadConversionsFromDB ==
  IF ~lsAttached
  THEN [ret |-> PyBool(FALSE), conversions |-> lsConversions]
  ELSE LET rows == GetConversionsData
       IN  [ret |-> PyNone,
            conversions |-> [i \in 1..Len(rows) |->
               [id |-> rows[i].id, old_text |-> rows[i].old_text,
                new_license_id |-> rows[i].new_license_id, modified |-> FALSE]]]

LoadCategoriesFromDB ==
  IF ~lsAttached
  THEN [ret |-> PyBool(FALSE), categories |-> lsCategories]
  ELSE LET rows == GetCategoriesData
       IN  [ret |-> PyNone,
            categories |-> [i \in 1..Len(rows) |->
               [id |-> rows[i].id, name |-> rows[i].name, modified |-> FALSE]]]

\* loadAllFromDB: each loader in turn, False as soon as one returns a false value
LoadAllFromDB ==
  LET c == LoadCategoriesFromDB
      l == LoadLicensesFromDB
      v == LoadConversionsFromDB
  IN  IF ~Truthy(c.ret)
      THEN [ret |-> PyBool(FALSE), categories |-> c.categories,
            licenses |-> lsLicenses, conversions |-> lsConversions]
      ELSE IF ~Truthy(l.ret)
      THEN [ret |-> PyBool(FALSE), categories |-> c.categories,
            licenses |-> l.licenses, conversions |-> lsConversions]
      ELSE IF ~Truthy(v.ret)
      THEN [ret |-> PyBool(FALSE), categories |-> c.categories,
            licenses |-> l.licenses, conversions |-> v.conversions]
      ELSE [ret |-> PyBool(TRUE), categories |-> c.categories,
            licenses |-> l.licenses, conversions |-> v.conversions]

\* getHighest...ID: None without a database, else the largest key, from 0
HighestID(dict) ==
  IF ~lsAttached THEN PyNone ELSE PyInt(Maximum(Ids(dict) \cup {0}))
GetHighestCategoryID == HighestID(lsCategories)
GetHighestLicenseID == HighestID(lsLicenses)
GetHighestConversionID == HighestID(lsConversions)

\* create...InStore: the value returned and the dict left
CreateConversionInStore(old_text, new_license_id) ==
  LET max_id == GetHighestConversionID
  IN  IF ~Truthy(max_id)
      THEN [ret |-> PyNone, conversions |-> lsConversions]
      ELSE LET conv_id == max_id.val + 1
           IN  [ret |-> PyInt(conv_id),
                conversions |-> DictSet(lsConversions,
                   [id |-> conv_id, old_text |-> old_text,
                    new_license_id |-> new_license_id, modified |-> TRUE])]

CreateCategoryInStore(name) ==
  LET max_id == GetHighestCategoryID
  IN  IF ~Truthy(max_id)
      THEN [ret |-> PyNone, categories |-> lsCategories]
      ELSE LET cat_id == max_id.val + 1
           IN  [ret |-> PyInt(cat_id),
                categories |-> DictSet(lsCategories,
                   [id |-> cat_id, name |-> name, modified |-> TRUE])]

CreateLicenseInStore(short_name, category_id) ==
  LET max_id == GetHighestLicenseID
  IN  IF ~Truthy(max_id)
      THEN [ret |-> PyNone, licenses |-> lsLicenses]
      ELSE LET lic_id == max_id.val + 1
           IN  [ret |-> PyInt(lic_id),
                licenses |-> DictSet(lsLicenses,
                   [id |-> lic_id, short_name |-> short_name,
                    category_id |-> category_id, modified |-> TRUE])]

\* the row an item is saved as
RowOf(table, item) ==
  CASE table = "categories" -> [id |-> item.id, name |-> item.name]
    [] table = "licenses" ->
         [id |-> item.id, short_name |-> item.short_name, category_id |-> item.category_id]
    [] table = "conversions" ->
         [id |-> item.id, old_text |-> item.old_text, new_license_id |-> item.new_license_id]

\* addNewCategory, addNewLicense, addNewConversion with commit=False on the
\* database d: the database left and the value returned
AddUncommitted(d, table, row) ==
  LET newid == IF row.id = 0 THEN NextRowid(d[table]) ELSE row.id
  IN  IF newid \in Ids(d[table])
      THEN [db |-> d, ret |-> -1]
      ELSE [db |-> [d EXCEPT ![table] = Append(@, [row EXCEPT !.id = newid])],
            ret |-> newid]

Modified(table, dict) ==
  LET items == SelectSeq(dict, LAMBDA x : x.modified)
  IN  [i \in 1..Len(items) |-> [table |-> table, item |-> items[i]]]

SaveOrder_LicensesFirst ==
  Modified("licenses", lsLicenses) \o Modified("categories", lsCategories)
    \o Modified("conversions", lsConversions)

\* the items saveAllModifiedToDatabase goes through, in the order of its loops
SaveOrder ==
  Modified("categories", lsCategories) \o Modified("licenses", lsLicenses)
    \o Modified("conversions", lsConversions)

\* the loops of saveAllModifiedToDatabase from the database d on: the database
\* left, the value returned and the adds made with what each returned
RECURSIVE SaveFrom(_, _, _)
SaveFrom(d, items, adds) ==
  IF items = <<>>
  THEN [db |-> d, ret |-> PyBool(TRUE), adds |-> adds, rolledBack |-> FALSE]
  ELSE LET table == Head(items).table
           item == Head(items).item
           r == AddUncommitted(d, table, RowOf(table, item))
           done == Append(adds, [table |-> table, id |-> item.id, ret |-> r.ret])
       IN  IF r.ret = item.id
           THEN SaveFrom(r.db, Tail(items), done)
           ELSE [db |-> dbSaved, ret |-> PyBool(FALSE), adds |-> done,
                 rolledBack |-> TRUE]

SaveAllModifiedToDatabase == SaveFrom(db, SaveOrder, <<>>)

\* ------------------------------------------------------------ SPDX record assembler
\* parseSPDXReport is imported by mainshell.py from parsetools.py, whose source
\* here does not hold it: the assembler follows section 4.2 of the
\* specification. A pair met before the first FileName has no open record to
\* set and changes nothing.
SHA256 == <<"S", "H", "A", "2", "5", "6">>

NewRecord(filename) ==
  [filename |-> filename, license |-> <<>>, sha1 |-> <<>>, md5 |-> <<>>,
   sha256 |-> <<>>]

\* acc.open: None or Some(the open record); acc.out: the records closed
AssembleStep_CarryOver(acc, pair) ==
  LET tag == pair[1]
      value == pair[2]
      rec == acc.open[1]
      cs == Split1(value)
      cs_type == Strip(cs[1])
      cs_value == Strip(cs[2])
  IN  IF tag = FileNameKey
      THEN [open |-> IF acc.open = None THEN Some(NewRecord(value))
                     ELSE Some([rec EXCEPT !.filename = value]),
            out |-> acc.out \o acc.open]
      ELSE IF acc.open = None THEN acc
      ELSE IF tag = LicenseConcludedKey
      THEN [acc EXCEPT !.open = Some([rec EXCEPT !.license = value])]
      ELSE IF tag = FileChecksumKey
      THEN IF Len(cs) # 2 THEN acc
           ELSE IF cs_type = SHA1
           THEN [acc EXCEPT !.open = Some([rec EXCEPT !.sha1 = cs_value])]
           ELSE IF cs_type = MD5
           THEN [acc EXCEPT !.open = Some([rec EXCEPT !.md5 = cs_value])]
           ELSE IF cs_type = SHA256
           THEN [acc EXCEPT !.open = Some([rec EXCEPT !.sha256 = cs_value])]
           ELSE acc
      ELSE acc

AssembleStep(acc, pair) ==
  LET tag == pair[1]
      value == pair[2]
      rec == acc.open[1]
      cs == Split1(value)
      cs_type == Strip(cs[1])
      cs_value == Strip(cs[2])
  IN  IF tag = FileNameKey
      THEN [open |-> Some(NewRecord(value)), out |-> acc.out \o acc.open]
      ELSE IF acc.open = None THEN acc
      ELSE IF tag = LicenseConcludedKey
      THEN [acc EXCEPT !.open = Some([rec EXCEPT !.license = value])]
      ELSE IF tag = FileChecksumKey
      THEN IF Len(cs) # 2 THEN acc
           ELSE IF cs_type = SHA1
           THEN [acc EXCEPT !.open = Some([rec EXCEPT !.sha1 = cs_value])]
           ELSE IF cs_type = MD5
           THEN [acc EXCEPT !.open = Some([rec EXCEPT !.md5 = cs_value])]
           ELSE IF cs_type = SHA256
           THEN [acc EXCEPT !.open = Some([rec EXCEPT !.sha256 = cs_value])]
           ELSE acc
      ELSE acc

RECURSIVE AssembleFrom(_, _)
AssembleFrom(acc, pairs) ==
  IF pairs = <<>> THEN acc.out \o acc.open
  ELSE AssembleFrom(AssembleStep(acc, Head(pairs)), Tail(pairs))

Assemble(pairs) == AssembleFrom([open |-> None, out |-> <<>>], pairs)

ParseResult_PartialRecords(ret) == Assemble(tvList)

\* the result of parseSPDXReport once the tokenizer has answered ret
ParseResult(ret) == IF ret.kind = "list" THEN Assemble(ret.list) ELSE <<>>

\* ------------------------------------------------------------ initial state
InitRest ==
  /\ loaderState = "READY"
  /\ tvList = <<>>
  /\ currentLineNum = 0
  /\ currentTag = <<>>
  /\ currentValue = <<>>
  /\ lastOp = "init"
  /\ lastLine = <<>>
  /\ prevState = "READY"
  /\ finalRet = RetVoid
  /\ malformedAt = 0
  /\ blockFrags = <<>>
  /\ openLine = <<>>
  /\ calls = 0
  /\ d1pc = "reading"
  /\ d1fds = <<>>
  /\ d2state = "READY"
  /\ tagdict = EmptyDict
  /\ fds = <<>>
  /\ d2pc = "loop"
  /\ d2k = <<>>
  /\ d2v = <<>>
  /\ d2exc = "none"
  /\ d2ret = RetVoid
  /\ d2lastLine = <<>>
  /\ d2entries = <<>>
  /\ d2closed = <<>>
  /\ d2n = 0
  /\ d2skipped = 0
  /\ rpPc = "idle"
  /\ rpPrefix = <<>>
  /\ rpExc = "none"
  /\ rpOrig = <<>>
  /\ rpCalls = 0
  /\ db = CreatedDatabase
  /\ dbSaved = CreatedDatabase
  /\ dbRet = 0
  /\ dbOp = [name |-> "createDatabase"]
  /\ dbCalls = 0
  /\ dbPending = {}
  /\ lsAttached = TRUE
  /\ lsCategories = <<>>
  /\ lsLicenses = <<>>
  /\ lsConversions = <<>>
  /\ lsRet = PyNone
  /\ lsOp = [name |-> "FTLicenseStore"]
  /\ lsWrites = <<>>
  /\ lsCalls = 0

Init == InitRest /\ d2file = <<>> /\ rpFds = <<>>

\* ------------------------------------------------------------ the report read
IsSentinel(raw) == Trim(raw) = FileSentinel \/ Trim(raw) = Terminator
\* the line is a sentinel read by the loop inside a record block
ClosesRecord(raw) ==
  d2pc = "loop" /\ d2state = "IN_FILE_SET" /\ IsSentinel(raw)
\* the tag entries of the block, as the lines give them: each tag line adds
\* (text before the first ':', text after it), both trimmed; each line the
\* lookahead reads is added, trimmed, to the value of the entry that opened it
NextEntries(raw) ==
  IF d2pc = "lookahead"
  THEN [d2entries EXCEPT ![Len(d2entries)] = <<@[1], @[2] \o Trim(raw)>>]
  ELSE IF d2state # "IN_FILE_SET" THEN <<>>
  ELSE IF IsSentinel(raw) THEN <<>>
  ELSE IF HasColon(raw)
  THEN Append(d2entries, <<Trim(Before(raw, Colon)), Trim(After(raw, Colon))>>)
  ELSE d2entries

\* lines of record blocks with repeated tags, blank and colon-less lines
D2Lines == {
  <<"#", "#", "F", "i", "l", "e">>,
  <<"#", "#", "-", "-", "-", "-", "-", "-", "-", "-", "-", "-", "-", "-", "-", "-", "-", "-", "-", "-", "-", "-", "-", "-", "-", "-", "-">>,
  <<"F", "i", "l", "e", "N", "a", "m", "e", ":", " ", "a">>,
  <<" ", "F", "i", "l", "e", "N", "a", "m", "e", " ", ":", " ", "b", " ">>,
  <<"L", "i", "c", "e", "n", "s", "e", "C", "o", "n", "c", "l", "u", "d", "e", "d", ":", " ", "M">>,
  <<"L", "i", "c", "e", "n", "s", "e", "C", "o", "n", "c", "l", "u", "d", "e", "d", ":", " ", "G", ":", "1">>,
  <<"F", "i", "l", "e", "C", "h", "e", "c", "k", "s", "u", "m", ":", " ", "S", "H", "A", "1", ":", " ", "1">>,
  <<"z", "z">>,
  <<" ">>
}

\* lines of record blocks with several checksums
D2SumLines == {
  <<"#", "#", "F", "i", "l", "e">>,
  <<"#", "#", "-", "-", "-", "-", "-", "-", "-", "-", "-", "-", "-", "-", "-", "-", "-", "-", "-", "-", "-", "-", "-", "-", "-", "-", "-">>,
  <<"F", "i", "l", "e", "N", "a", "m", "e", ":", " ", "a">>,
  <<"F", "i", "l", "e", "C", "h", "e", "c", "k", "s", "u", "m", ":", " ", "S", "H", "A", "1", ":", " ", "1">>,
  <<"F", "i", "l", "e", "C", "h", "e", "c", "k", "s", "u", "m", ":", " ", "S", "H", "A", "1", ":", " ", "2">>,
  <<"F", "i", "l", "e", "C", "h", "e", "c", "k", "s", "u", "m", ":", " ", "M", "D", "5", ":", " ", "3">>,
  <<"F", "i", "l", "e", "C", "h", "e", "c", "k", "s", "u", "m", ":", "M", "D", "5", " ", ":", "5">>,
  <<"F", "i", "l", "e", "C", "h", "e", "c", "k", "s", "u", "m", ":", " ", "F", "O", "O", ":", " ", "4">>,
  <<"F", "i", "l", "e", "C", "h", "e", "c", "k", "s", "u", "m", ":", " ", "b", "a", "d">>
}

\* lines around a <text> value
D2TextLines == {
  <<"#", "#", "F", "i", "l", "e">>,
  <<"#", "#", "-", "-", "-", "-", "-", "-", "-", "-", "-", "-", "-", "-", "-", "-", "-", "-", "-", "-", "-", "-", "-", "-", "-", "-", "-">>,
  <<"F", "i", "l", "e", "C", "h", "e", "c", "k", "s", "u", "m", ":", " ", "S", "H", "A", "1", ":", " ", "1">>,
  <<"T", ":", " ", "<", "t", "e", "x", "t", ">", "x">>,
  <<"y", "<", "/", "t", "e", "x", "t", ">">>,
  <<"U", ":", " ", "<", "t", "e", "x", "t", ">", "x", "<", "/", "t", "e", "x", "t", ">">>,
  <<"U", ":", " ", "<", "t", "e", "x", "t", ">", "x", "<", "/", "t", "e", "x", "t", ">", " ", "z">>
}

D2Read(raw) ==
  /\ ReadLine(raw)
  /\ d2lastLine' = raw
  /\ d2entries' = NextEntries(raw)
  /\ d2closed' = IF ClosesRecord(raw) THEN d2entries ELSE d2closed
  /\ d2n' = d2n + 1
  /\ d2skipped' =
       IF d2pc = "loop" /\ d2state = "READY" /\ Trim(raw) # FileSentinel
       THEN d2skipped + 1 ELSE d2skipped

notD2 == <<tokVars, histVars, d1Vars, rpVars, dbVars, lsVars>>

D2Line(raw) ==
  /\ d2n < MaxD2Lines
  /\ D2Read(raw)
  /\ UNCHANGED <<d2file, notD2>>

D2EndOfFile ==
  /\ EndOfFile
  /\ UNCHANGED <<d2file, d2Hist, notD2>>

D2IOFailure ==
  /\ IOFailure
  /\ UNCHANGED <<d2file, d2Hist, notD2>>

D2Next ==
  \/ \E raw \in D2Lines : D2Line(raw)
  \/ D2EndOfFile
  \/ D2IOFailure

\* a report of well-formed record blocks: block i holds, in any order, its own
\* FileName, LicenseConcluded, SHA1 and MD5 lines; the terminator ends the report
Digits == <<"1", "2", "3", "4", "5", "6", "7", "8", "9">>
BlockValue(letter, i) == <<letter, Digits[i]>>
BlockLine(i, j) ==
  IF j = 1 THEN <<"F", "i", "l", "e", "N", "a", "m", "e", ":", " ">> \o BlockValue("f", i)
  ELSE IF j = 2 THEN <<"L", "i", "c", "e", "n", "s", "e", "C", "o", "n", "c", "l", "u", "d", "e", "d", ":", " ">> \o BlockValue("l", i)
  ELSE IF j = 3 THEN <<"F", "i", "l", "e", "C", "h", "e", "c", "k", "s", "u", "m", ":", " ", "S", "H", "A", "1", ":", " ">> \o BlockValue("s", i)
  ELSE <<"F", "i", "l", "e", "C", "h", "e", "c", "k", "s", "u", "m", ":", " ", "M", "D", "5", ":", " ">> \o BlockValue("m", i)
Orders == {<<1, 2, 3, 4>>, <<4, 3, 2, 1>>, <<2, 1, 4, 3>>, <<3, 4, 1, 2>>,
           <<1, 3, 2, 4>>, <<4, 1, 3, 2>>}
Block(i, p) == <<FileSentinel>> \o [j \in 1..4 |-> BlockLine(i, p[j])]
RECURSIVE Blocks(_, _)
Blocks(k, ps) == IF k = 0 THEN <<>> ELSE Blocks(k - 1, ps) \o Block(k, ps[k])
BlockFiles ==
  UNION {{Blocks(k, ps) \o <<Terminator>> : ps \in [1..k -> Orders]} : k \in 1..MaxBlocks}
BlockCount(file) == Cardinality({n \in 1..Len(file) : file[n] = FileSentinel})
BlockRecord(i) ==
  [filename |-> Some(BlockValue("f", i)), license |-> Some(BlockValue("l", i)),
   md5 |-> Some(BlockValue("m", i)), sha1 |-> Some(BlockValue("s", i))]

D2FileLine ==
  /\ d2n < Len(d2file)
  /\ D2Read(d2file[d2n + 1])
  /\ UNCHANGED <<d2file, notD2>>

D2BlocksInit == InitRest /\ d2file \in BlockFiles /\ rpFds = <<>>

D2BlocksNext == D2FileLine

\* a report of well-formed record blocks that ends without the terminator
OpenFiles ==
  UNION {{Blocks(k, ps) : ps \in [1..k -> Orders]} : k \in 1..MaxBlocks}

D2FileEnd ==
  /\ d2n = Len(d2file)
  /\ EndOfFile
  /\ UNCHANGED <<d2file, d2Hist, notD2>>

D2OpenInit == InitRest /\ d2file \in OpenFiles /\ rpFds = <<>>

D2OpenNext ==
  \/ D2FileLine
  \/ D2FileEnd

D2SumNext ==
  \/ \E raw \in D2SumLines : D2Line(raw)
  \/ D2EndOfFile
  \/ D2IOFailure

D2TextNext ==
  \/ \E raw \in D2TextLines : D2Line(raw)
  \/ D2EndOfFile

\* ------------------------------------------------------------ prefixes removed
RpInit == InitRest /\ d2file = <<>> /\ rpFds \in NameLists

\* a call of removePrefixes on the list, after a call that returned (or none)
RpApply ==
  /\ rpPc # "raised"
  /\ rpCalls < MaxApplies
  /\ RemovePrefixes
  /\ rpOrig' = rpFds
  /\ rpCalls' = rpCalls + 1
  /\ UNCHANGED <<tokVars, histVars, d1Vars, d2Vars, d2file, d2Hist, dbVars, lsVars>>

RpNext == RpApply

RpSpec == RpInit /\ [][RpNext]_vars

\* ------------------------------------------------------------ prefix normalizer claims
\* a call of removePrefixes
Applies == rpCalls' = rpCalls + 1
\* the text of a path before its first '/'
LeadingSegment(path) == IF Contains(path, Slash) THEN Before(path, Slash) ELSE path
\* relative paths none of which starts with "./", not all with one leading segment
ShareNoLeadingSegment(names) ==
  /\ Len(names) >= 2
  /\ \A i \in 1..Len(names) :
       names[i] # None /\ LeadingSegment(names[i][1]) \notin {<<>>, Dot}
  /\ \E i, j \in 1..Len(names) :
       LeadingSegment(names[i][1]) # LeadingSegment(names[j][1])

\* C16 (as claimed): a call of removePrefixes on a list a call has already been
\* made on returns the empty prefix and changes no filename.
RemovePrefixesIsIdempotent ==
  [][ (Applies /\ rpCalls >= 1)
        => /\ rpPc' = "returned"
           /\ rpPrefix' = <<>>
           /\ rpFds' = rpFds ]_vars

\* C17 (as claimed): a call of removePrefixes on the empty list, or on
\* filenames that share no leading path segment, raises nothing, returns the
\* empty prefix and changes no filename.
DegenerateInputsGiveNoPrefix ==
  [][ (Applies /\ (rpFds = <<>> \/ ShareNoLeadingSegment(rpFds)))
        => /\ rpPc' = "returned"
           /\ rpPrefix' = <<>>
           /\ rpFds' = rpFds ]_vars

\* C18 (as claimed): when removePrefixes returns, every filename as it was is
\* the prefix returned followed by the filename as it is now, and the prefix
\* ends where a path segment of the filename ends.
PrefixIsWholeSegmentsStripped ==
  [][ (Applies /\ rpPc' = "returned")
        => \A i \in 1..Len(rpFds) :
             /\ rpFds[i][1] = rpPrefix' \o rpFds'[i][1]
             /\ \/ rpPrefix' = <<>> \/ Last(rpPrefix') = "/"
                \/ rpFds'[i][1] = <<>> \/ Head(rpFds'[i][1]) = "/" ]_vars

\* the records, one at least, all hold the same filename, a string
AllNamedAlike(names) ==
  /\ names # <<>>
  /\ names[1] # None
  /\ \A i \in 1..Len(names) : names[i] = names[1]

\* C30 (as claimed): a call of removePrefixes on records that all hold the
\* same filename, a single record among them, returns that filename whole as
\* the prefix and leaves every record with the empty filename.
SameNameIsWholePrefix ==
  [][ (Applies /\ AllNamedAlike(rpFds))
        => /\ rpPc' = "returned"
           /\ rpPrefix' = rpFds[1][1]
           /\ \A i \in 1..Len(rpFds) : rpFds'[i] = Some(<<>>) ]_vars

\* ------------------------------------------------------------ database calls
notDb == <<tokVars, histVars, d1Vars, d2Vars, d2file, d2Hist, rpVars, lsVars>>
DbNames == {"a", "b"}
DbIds == {0, 1, 3}

\* the rows not yet committed once an add has returned ret: the add failed
\* (-1), or committed, or left its row, the arguments under the id returned
NextPending(ret, commit, table, row) ==
  IF ret = -1 THEN dbPending
  ELSE IF commit THEN {}
  ELSE dbPending \cup {<<table, row>>}

DbInitialize ==
  /\ InitializeDatabaseTables
  /\ dbOp' = [name |-> "initializeDatabaseTables"]
  /\ dbPending' = {}
  /\ UNCHANGED <<dbCalls, notDb>>

DbAddScan(commit) ==
  /\ dbCalls < MaxDbCalls
  /\ AddNewScan("2017-01-01", "no description", commit)
  /\ dbOp' = [name |-> "addNewScan", commit |-> commit]
  /\ dbCalls' = dbCalls + 1
  /\ dbPending' = NextPending(dbRet', commit, "scans",
                    [id |-> dbRet', scan_dt |-> "2017-01-01", desc |-> "no description"])
  /\ UNCHANGED notDb

DbAddCategory(name, commit, id) ==
  /\ dbCalls < MaxDbCalls
  /\ AddNewCategory(name, commit, id)
  /\ dbOp' = [name |-> "addNewCategory", arg |-> name, commit |-> commit, id |-> id]
  /\ dbCalls' = dbCalls + 1
  /\ dbPending' = NextPending(dbRet', commit, "categories",
                    [id |-> dbRet', name |-> name])
  /\ UNCHANGED notDb

DbAddLicense(short_name, commit, id) ==
  /\ dbCalls < MaxDbCalls
  /\ AddNewLicense(short_name, 1, commit, id)
  /\ dbOp' = [name |-> "addNewLicense", arg |-> short_name, commit |-> commit, id |-> id]
  /\ dbCalls' = dbCalls + 1
  /\ dbPending' = NextPending(dbRet', commit, "licenses",
                    [id |-> dbRet', short_name |-> short_name, category_id |-> 1])
  /\ UNCHANGED notDb

DbAddConversion(old_text, commit, id) ==
  /\ dbCalls < MaxDbCalls
  /\ AddNewConversion(old_text, 1, commit, id)
  /\ dbOp' = [name |-> "addNewConversion", arg |-> old_text, commit |-> commit, id |-> id]
  /\ dbCalls' = dbCalls + 1
  /\ dbPending' = NextPending(dbRet', commit, "conversions",
                    [id |-> dbRet', old_text |-> old_text, new_license_id |-> 1])
  /\ UNCHANGED notDb

DbAddFile(filename, commit) ==
  /\ dbCalls < MaxDbCalls
  /\ AddNewFile(1, filename, 1, "md5", "sha1", commit)
  /\ dbOp' = [name |-> "addNewFile", arg |-> filename, commit |-> commit]
  /\ dbCalls' = dbCalls + 1
  /\ dbPending' = NextPending(dbRet', commit, "files",
                    [id |-> dbRet', scan_id |-> 1, filename |-> filename,
                     license_id |-> 1, md5 |-> "md5", sha1 |-> "sha1"])
  /\ UNCHANGED notDb

DbCommit ==
  /\ CommitChanges
  /\ dbOp' = [name |-> "commitChanges"]
  /\ dbPending' = {}
  /\ UNCHANGED <<dbCalls, notDb>>

DbRollback ==
  /\ RollbackChanges
  /\ dbOp' = [name |-> "rollbackChanges"]
  /\ dbPending' = {}
  /\ UNCHANGED <<dbCalls, notDb>>

DbNext ==
  \/ DbInitialize
  \/ \E commit \in BOOLEAN : DbAddScan(commit)
  \/ \E name \in DbNames, commit \in BOOLEAN, id \in DbIds : DbAddCategory(name, commit, id)
  \/ \E name \in DbNames, commit \in BOOLEAN, id \in DbIds : DbAddLicense(name, commit, id)
  \/ DbCommit
  \/ DbRollback

DbSpec == Init /\ [][DbNext]_vars

\* adds to the five tables, committed or not, and rollbacks
DbTxNext ==
  \/ DbInitialize
  \/ \E commit \in BOOLEAN : DbAddScan(commit)
  \/ \E commit \in BOOLEAN, id \in {0, 3} : DbAddCategory("a", commit, id)
  \/ \E commit \in BOOLEAN : DbAddLicense("a", commit, 0)
  \/ \E commit \in BOOLEAN, id \in {0, 3} : DbAddConversion("a", commit, id)
  \/ \E commit \in BOOLEAN : DbAddFile("a", commit)
  \/ DbCommit
  \/ DbRollback

DbTxSpec == Init /\ [][DbTxNext]_vars

\* ------------------------------------------------------------ license store calls
notLs == <<tokVars, histVars, d1Vars, d2Vars, d2file, d2Hist, rpVars>>

\* FTLicenseStore(db), db a database or None
LsConstruct(attached) ==
  /\ lsAttached' = attached
  /\ lsCategories' = <<>>
  /\ lsLicenses' = <<>>
  /\ lsConversions' = <<>>
  /\ lsRet' = PyNone
  /\ lsOp' = [name |-> "FTLicenseStore"]
  /\ lsWrites' = <<>>
  /\ UNCHANGED <<lsCalls, dbVars, notLs>>

LsLoadCategories ==
  /\ lsCategories' = LoadCategoriesFromDB.categories
  /\ lsRet' = LoadCategoriesFromDB.ret
  /\ lsOp' = [name |-> "loadCategoriesFromDB"]
  /\ lsWrites' = <<>>
  /\ UNCHANGED <<lsAttached, lsLicenses, lsConversions, lsCalls, dbVars, notLs>>

LsLoadLicenses ==
  /\ lsLicenses' = LoadLicensesFromDB.licenses
  /\ lsRet' = LoadLicensesFromDB.ret
  /\ lsOp' = [name |-> "loadLicensesFromDB"]
  /\ lsWrites' = <<>>
  /\ UNCHANGED <<lsAttached, lsCategories, lsConversions, lsCalls, dbVars, notLs>>

LsLoadConversions ==
  /\ lsConversions' = LoadConversionsFromDB.conversions
  /\ lsRet' = LoadConversionsFromDB.ret
  /\ lsOp' = [name |-> "loadConversionsFromDB"]
  /\ lsWrites' = <<>>
  /\ UNCHANGED <<lsAttached, lsCategories, lsLicenses, lsCalls, dbVars, notLs>>

LsLoadAll ==
  /\ lsCategories' = LoadAllFromDB.categories
  /\ lsLicenses' = LoadAllFromDB.licenses
  /\ lsConversions' = LoadAllFromDB.conversions
  /\ lsRet' = LoadAllFromDB.ret
  /\ lsOp' = [name |-> "loadAllFromDB"]
  /\ lsWrites' = <<>>
  /\ UNCHANGED <<lsAttached, lsCalls, dbVars, notLs>>

LsCreateCategory(name) ==
  /\ lsCalls < MaxCreates
  /\ lsCategories' = CreateCategoryInStore(name).categories
  /\ lsRet' = CreateCategoryInStore(name).ret
  /\ lsOp' = [name |-> "createCategoryInStore"]
  /\ lsCalls' = lsCalls + 1
  /\ lsWrites' = <<>>
  /\ UNCHANGED <<lsAttached, lsLicenses, lsConversions, dbVars, notLs>>

LsCreateLicense(short_name, category_id) ==
  /\ lsCalls < MaxCreates
  /\ lsLicenses' = CreateLicenseInStore(short_name, category_id).licenses
  /\ lsRet' = CreateLicenseInStore(short_name, category_id).ret
  /\ lsOp' = [name |-> "createLicenseInStore"]
  /\ lsCalls' = lsCalls + 1
  /\ lsWrites' = <<>>
  /\ UNCHANGED <<lsAttached, lsCategories, lsConversions, dbVars, notLs>>

LsCreateConversion(old_text, new_license_id) ==
  /\ lsCalls < MaxCreates
  /\ lsConversions' = CreateConversionInStore(old_text, new_license_id).conversions
  /\ lsRet' = CreateConversionInStore(old_text, new_license_id).ret
  /\ lsOp' = [name |-> "createConversionInStore"]
  /\ lsCalls' = lsCalls + 1
  /\ lsWrites' = <<>>
  /\ UNCHANGED <<lsAttached, lsCategories, lsLicenses, dbVars, notLs>>

\* the first lines of shellImportScan: a new store on the database, then
\* loadLicensesFromDB, loadConversionsFromDB, loadCategoriesFromDB
LsReload ==
  /\ lsAttached' = TRUE
  /\ lsLicenses' = [LoadLicensesFromDB EXCEPT !.ret = PyNone].licenses
  /\ lsConversions' = [LoadConversionsFromDB EXCEPT !.ret = PyNone].conversions
  /\ lsCategories' = [LoadCategoriesFromDB EXCEPT !.ret = PyNone].categories
  /\ lsRet' = PyNone
  /\ lsOp' = [name |-> "shellImportScan"]
  /\ lsWrites' = <<>>
  /\ UNCHANGED <<lsCalls, dbVars, notLs>>

\* saveAllModifiedToDatabase on a store that has a database
LsSave ==
  /\ lsAttached
  /\ LET r == SaveAllModifiedToDatabase
     IN  /\ db' = r.db
         /\ lsRet' = r.ret
         /\ lsWrites' = r.adds
         /\ dbRet' = IF r.adds = <<>> THEN dbRet ELSE r.adds[Len(r.adds)].ret
         /\ dbPending' =
              IF r.rolledBack THEN {}
              ELSE dbPending \cup {<<SaveOrder[i].table, RowOf(SaveOrder[i].table, SaveOrder[i].item)>> :
                                     i \in 1..Len(SaveOrder)}
  /\ dbOp' = [name |-> "saveAllModifiedToDatabase"]
  /\ lsOp' = [name |-> "saveAllModifiedToDatabase"]
  /\ UNCHANGED <<lsFields, lsCalls, dbSaved, dbCalls, notLs>>

\* a store built on a database or on None, loaded and filled, beside calls that
\* add rows to the database
LsNext ==
  \/ \E attached \in BOOLEAN : LsConstruct(attached)
  \/ LsLoadCategories
  \/ LsLoadLicenses
  \/ LsLoadConversions
  \/ LsLoadAll
  \/ LsCreateCategory("c")
  \/ LsCreateLicense("l", 1)
  \/ LsCreateConversion("x", 1)
  \/ DbAddCategory("a", TRUE, 0)
  \/ DbAddLicense("a", TRUE, 0)
  \/ DbAddConversion("a", TRUE, 0)

LsSpec == Init /\ [][LsNext]_vars

DbInitializeWithLicense ==
  /\ InitializeDatabaseTablesWithLicense
  /\ dbOp' = [name |-> "initializeDatabaseTables"]
  /\ dbPending' = {}
  /\ UNCHANGED <<dbCalls, notDb>>

\* a store on a database, loaded, filled and saved as shellImportScan does,
\* beside calls that add rows to the database
LsSaveNext ==
  \/ DbInitializeWithLicense
  \/ LsReload
  \/ LsCreateCategory("c")
  \/ LsCreateLicense("l", 1)
  \/ LsCreateConversion("x", 1)
  \/ LsSave
  \/ dbCalls < MaxOtherAdds /\ DbAddCategory("a", TRUE, 0)
  \/ dbCalls < MaxOtherAdds /\ DbAddLicense("a", TRUE, 0)
  \/ dbCalls < MaxOtherAdds /\ DbAddConversion("a", TRUE, 0)

LsSaveSpec == Init /\ [][LsSaveNext]_vars

\* ------------------------------------------------------------ license store claims
\* the collection a create call works on, among the three given
CreatedIn(name, categories, licenses, conversions) ==
  CASE name = "createCategoryInStore" -> categories
    [] name = "createLicenseInStore" -> licenses
    [] name = "createConversionInStore" -> conversions

\* a step is a create call: only these calls are counted in lsCalls
IsCreate == lsCalls' = lsCalls + 1

\* C23: with a database attached, createConversionInStore,
\* createCategoryInStore and createLicenseInStore each add exactly one item to
\* their collection, marked modified, under the highest id of the collection
\* plus one, an id no item of the collection has, and return that id; the
\* collection may hold no item when the call is made.
CreateAddsOneItemUnderNextId ==
  [][ (IsCreate /\ lsAttached) =>
        LET before == CreatedIn(lsOp'.name, lsCategories, lsLicenses, lsConversions)
            after == CreatedIn(lsOp'.name, lsCategories', lsLicenses', lsConversions')
            id == Maximum(Ids(before) \cup {0}) + 1
        IN  /\ lsRet' = PyInt(id)
            /\ id \notin Ids(before)
            /\ Len(after) = Len(before) + 1
            /\ SubSeq(after, 1, Len(before)) = before
            /\ after[Len(after)].id = id
            /\ after[Len(after)].modified ]_vars

\* a step is a call of one of the loaders: they leave the database alone, and
\* every other call on the store is named otherwise
IsLoad ==
  /\ lsOp'.name \in {"loadAllFromDB", "loadCategoriesFromDB",
                     "loadLicensesFromDB", "loadConversionsFromDB"}
  /\ dbCalls' = dbCalls

\* the items a collection holds when it holds exactly the rows, none modified
AsLoaded(rows, dict) ==
  /\ Len(dict) = Len(rows)
  /\ \A i \in 1..Len(rows) :
       /\ ~dict[i].modified
       /\ \A f \in DOMAIN rows[i] : dict[i][f] = rows[i][f]

\* C24: loadAllFromDB and each of loadCategoriesFromDB, loadLicensesFromDB,
\* loadConversionsFromDB return True when the store has a database and False
\* when it has none; after True the collections loaded hold exactly the rows
\* of the database, none marked modified.
LoadersReturnWhetherLoaded ==
  [][ IsLoad =>
        /\ lsRet' = PyBool(lsAttached)
        /\ lsRet' = PyBool(TRUE) =>
             /\ lsOp'.name \in {"loadAllFromDB", "loadCategoriesFromDB"} =>
                  AsLoaded(OrderById(db.categories), lsCategories')
             /\ lsOp'.name \in {"loadAllFromDB", "loadLicensesFromDB"} =>
                  AsLoaded(OrderById(db.licenses), lsLicenses')
             /\ lsOp'.name \in {"loadAllFromDB", "loadConversionsFromDB"} =>
                  AsLoaded(OrderById(db.conversions), lsConversions') ]_vars

\* a step is a saveAllModifiedToDatabase call: every other call on the store
\* or on the database names itself in lsOp or in dbOp
IsSave ==
  /\ lsOp'.name = "saveAllModifiedToDatabase"
  /\ dbOp'.name = "saveAllModifiedToDatabase"

ModifiedIds(dict) == {dict[i].id : i \in {j \in 1..Len(dict) : dict[j].modified}}

\* the add calls that did not return the id they were given
FailedWrites(adds) == {i \in 1..Len(adds) : adds[i].ret # adds[i].id}

\* the add calls made for a table, as the set of the ids given
WrittenTo(table, adds) == {adds[i].id : i \in {j \in 1..Len(adds) : adds[j].table = table}}

\* every modified item of dict is written before the add numbered j
AllWrittenBefore(table, dict, adds, j) ==
  \A id \in ModifiedIds(dict) :
    \E i \in 1..(j - 1) : adds[i].table = table /\ adds[i].id = id

\* C26: saveAllModifiedToDatabase writes the modified categories, then the
\* modified licenses, then the modified conversions: a license is written
\* only after every modified category, a conversion only after every modified
\* license and category; only modified items are written, each once. At the
\* first write that does not return the item's own id it rolls back, writes
\* nothing further and returns False; it returns True only when every
\* modified item was written under its own id, and then the rows are in the
\* database.
SaveWritesInOrderOrRollsBack ==
  [][ IsSave =>
        LET adds == lsWrites'
        IN  /\ \A j \in 1..Len(adds) :
                 /\ adds[j].table = "categories" => adds[j].id \in ModifiedIds(lsCategories)
                 /\ adds[j].table = "licenses" =>
                      /\ adds[j].id \in ModifiedIds(lsLicenses)
                      /\ AllWrittenBefore("categories", lsCategories, adds, j)
                 /\ adds[j].table = "conversions" =>
                      /\ adds[j].id \in ModifiedIds(lsConversions)
                      /\ AllWrittenBefore("categories", lsCategories, adds, j)
                      /\ AllWrittenBefore("licenses", lsLicenses, adds, j)
                 /\ \A i \in 1..(j - 1) :
                      adds[i].table # adds[j].table \/ adds[i].id # adds[j].id
            /\ FailedWrites(adds) # {} =>
                 /\ FailedWrites(adds) = {Len(adds)}
                 /\ lsRet' = PyBool(FALSE)
                 /\ db' = dbSaved
            /\ lsRet' \in {PyBool(TRUE), PyBool(FALSE)}
            /\ lsRet' = PyBool(TRUE) =>
                 /\ FailedWrites(adds) = {}
                 /\ WrittenTo("categories", adds) = ModifiedIds(lsCategories)
                 /\ WrittenTo("licenses", adds) = ModifiedIds(lsLicenses)
                 /\ WrittenTo("conversions", adds) = ModifiedIds(lsConversions)
                 /\ \A i \in 1..Len(lsCategories) : lsCategories[i].modified =>
                      GetRow(db'.categories, lsCategories[i].id)
                        = Some(RowOf("categories", lsCategories[i]))
                 /\ \A i \in 1..Len(lsLicenses) : lsLicenses[i].modified =>
                      GetRow(db'.licenses, lsLicenses[i].id)
                        = Some(RowOf("licenses", lsLicenses[i]))
                 /\ \A i \in 1..Len(lsConversions) : lsConversions[i].modified =>
                      GetRow(db'.conversions, lsConversions[i].id)
                        = Some(RowOf("conversions", lsConversions[i])) ]_vars

\* a save has written a new category, then failed on a new license whose id
\* another call had taken: it returned False, the category is rolled back and
\* the new conversion was never written
SaveWritesInOrderOrRollsBack_Witness ==
  /\ lsOp.name = "saveAllModifiedToDatabase"
  /\ dbOp.name = "saveAllModifiedToDatabase"
  /\ lsRet = PyBool(FALSE)
  /\ Len(lsWrites) = 2
  /\ lsWrites[1].table = "categories" /\ lsWrites[1].ret = lsWrites[1].id
  /\ lsWrites[2].table = "licenses" /\ lsWrites[2].ret = -1
  /\ ModifiedIds(lsConversions) # {}
  /\ db = dbSaved
  /\ lsWrites[1].id \notin Ids(db.categories)

\* ------------------------------------------------------------ database claims
StrictlyIncreasing(ids) == \A i \in 1..(Len(ids) - 1) : ids[i] < ids[i + 1]
\* the rows listed are the rows of the table, each once
ListsTable(rows, table) ==
  /\ Len(rows) = Len(table)
  /\ {rows[i] : i \in 1..Len(rows)} = {table[i] : i \in 1..Len(table)}

\* C20: whatever adds were made, with ids given or not and in any order, each
\* of the six listings gives the rows of its table in strictly increasing id
\* order, so with no id twice.
ListingsAreOrderedById ==
  /\ StrictlyIncreasing(GetScansIDList)
  /\ StrictlyIncreasing(GetCategoriesIDList)
  /\ StrictlyIncreasing(GetLicensesIDList)
  /\ StrictlyIncreasing(IdColumn(GetScansData))
  /\ StrictlyIncreasing(IdColumn(GetCategoriesData))
  /\ StrictlyIncreasing(IdColumn(GetLicensesData))
  /\ ListsTable(GetScansData, db.scans) /\ GetScansIDList = IdColumn(GetScansData)
  /\ ListsTable(GetCategoriesData, db.categories)
  /\ GetCategoriesIDList = IdColumn(GetCategoriesData)
  /\ ListsTable(GetLicensesData, db.licenses)
  /\ GetLicensesIDList = IdColumn(GetLicensesData)

\* categories added with ids 3, then 1, then without an id
ListingsAreOrderedById_Witness ==
  /\ IdColumn(db.categories) = <<3, 1, 4>>
  /\ GetCategoriesIDList = <<1, 3, 4>>
  /\ GetCategoriesData[1].id = 1

\* an add call, and the id it was given
Adds(name) == dbCalls' = dbCalls + 1 /\ dbOp'.name = name
GivenIdIn(table) == dbOp'.id # 0 /\ dbOp'.id \in Ids(table)

\* C21: addNewScan on a database that is not initialized, and addNewCategory /
\* addNewLicense given an id a row of the table has already, return -1 and
\* leave every table as it was, in the connection and in what is committed.
FailedAddsChangeNothing ==
  [][ (\/ Adds("addNewScan") /\ db.initialized # "yes"
       \/ Adds("addNewCategory") /\ GivenIdIn(db.categories)
       \/ Adds("addNewLicense") /\ GivenIdIn(db.licenses))
        => /\ dbRet' = -1
           /\ db' = db
           /\ dbSaved' = dbSaved ]_vars

\* addNewCategory("b", id=3) after a category "a" was added with id 3, on a
\* database that is not initialized and has refused a scan before
FailedAddsChangeNothing_Witness ==
  /\ dbOp.name = "addNewCategory" /\ dbOp.id = 3 /\ dbOp.arg = "b"
  /\ dbRet = -1
  /\ db.categories = <<[id |-> 3, name |-> "a"]>>
  /\ db.initialized = "no" /\ db.scans = <<>> /\ dbCalls = 3

\* the rows that the get...Data(id) calls retrieve from d, each with its table
TableNames == {"scans", "categories", "licenses", "conversions", "files"}
Retrievable(d) ==
  UNION {{<<t, GetRow(d[t], id)[1]>> : id \in Ids(d[t])} : t \in TableNames}
\* an add that returned an id
AddsRow(commit) == dbCalls' = dbCalls + 1 /\ dbRet' # -1 /\ dbOp'.commit = commit

\* C22: rollbackChanges() takes away exactly the rows added with commit=False
\* since the last commit, and every other row is retrieved as before, with the
\* same values; a row added with commit=False is retrieved until then; an add
\* with commit=True leaves no row for a later rollback to take away.
RollbackDropsUncommittedRows ==
  [][ /\ dbPending \subseteq Retrievable(db)
      /\ dbOp'.name = "rollbackChanges"
           => Retrievable(db') = Retrievable(db) \ dbPending
      /\ AddsRow(FALSE)
           => \E row \in Retrievable(db') \ Retrievable(db) :
                /\ Retrievable(db') = Retrievable(db) \cup {row}
                /\ dbPending' = dbPending \cup {row}
      /\ AddsRow(TRUE)
           => /\ Retrievable(db) \subseteq Retrievable(db')
              /\ Cardinality(Retrievable(db')) = Cardinality(Retrievable(db)) + 1
              /\ dbPending' = {} ]_vars

\* a rollback that took away a file and a conversion added with commit=False
\* and left the scan added with commit=True before them
RollbackDropsUncommittedRows_Witness ==
  /\ dbOp.name = "rollbackChanges"
  /\ dbCalls = 3
  /\ Len(db.scans) = 1 /\ GetScanData(1) # None
  /\ db.files = <<>> /\ GetFileData(1) = None
  /\ db.conversions = <<>> /\ GetConversionData(1) = None

\* ------------------------------------------------------------ calls
LoaderReset ==
  /\ Reset
  /\ lastOp' = "reset"
  /\ prevState' = loaderState
  /\ finalRet' = RetVoid
  /\ malformedAt' = 0
  /\ blockFrags' = <<>>
  /\ UNCHANGED <<lastLine, openLine, calls>>

LoaderParse(line) ==
  /\ calls < MaxCalls
  /\ ParseNextLine(line)
  /\ calls' = calls + 1
  /\ lastOp' = "parse"
  /\ lastLine' = line
  /\ prevState' = loaderState
  /\ finalRet' = RetVoid
  /\ malformedAt' =
       IF malformedAt = 0 /\ loaderState = "READY" /\ IsMalformedLine(line)
       THEN currentLineNum + 1
       ELSE malformedAt
  /\ blockFrags' = NextBlockFrags(loaderState, blockFrags, line)
  /\ openLine' = IF loaderState = "READY" THEN line ELSE openLine

LoaderFinal ==
  /\ GetFinalTVList
  /\ lastOp' = "final"
  /\ prevState' = loaderState
  /\ UNCHANGED <<lastLine, malformedAt, blockFrags, openLine, calls>>

\* ------------------------------------------------------------ tokenizer claims

\* C1: once loaderState is ERROR, every call other than reset() leaves it ERROR
\* and leaves the pair list and the buffered tag and value as they were;
\* isError() stays true and getFinalTVList returns None.
ErrorIsTerminal ==
  [][ (loaderState = "ERROR" /\ lastOp' # "reset")
        => /\ IsError'
           /\ tvList' = tvList
           /\ currentTag' = currentTag
           /\ currentValue' = currentValue
           /\ (lastOp' = "final" => finalRet' = RetNone) ]_vars

\* a well-formed tag line fed to a loader in ERROR that holds pairs
ErrorIsTerminal_Witness ==
  /\ lastOp = "parse" /\ prevState = "ERROR" /\ IsError
  /\ HasColon(lastLine) /\ ~IsCommentLine(lastLine)
  /\ tvList # <<>>

\* C2: a non-blank, non-comment line without ':' met in READY makes
\* getFinalTVList return None, whatever lines precede or follow it.
NoColonForcesFailure ==
  malformedAt > 0 => /\ IsError
                     /\ (lastOp = "final" => finalRet = RetNone)

\* getFinalTVList after pairs, then the colon-less line, then a well-formed line
NoColonForcesFailure_Witness ==
  /\ lastOp = "final" /\ finalRet = RetNone
  /\ malformedAt > 1 /\ currentLineNum > malformedAt
  /\ tvList # <<>>
  /\ HasColon(lastLine) /\ ~IsCommentLine(lastLine)

\* C3: getFinalTVList in MIDTEXT returns None and moves to ERROR; in READY it
\* returns the accumulated pairs and stays READY; the pairs are accumulated in
\* input order (a call only ever appends to the list) and getFinalTVList
\* changes no pair.
FinalTVListContract ==
  [][ /\ (lastOp' = "final" =>
            /\ tvList' = tvList
            /\ (loaderState = "MIDTEXT" => finalRet' = RetNone /\ IsError')
            /\ (loaderState = "READY" =>
                  finalRet' = RetList(tvList) /\ loaderState' = "READY"))
      /\ (lastOp' = "parse" => IsPrefix(tvList, tvList')) ]_vars

\* getFinalTVList called inside an open block, after a completed pair
FinalTVListContract_Witness ==
  /\ lastOp = "final" /\ prevState = "MIDTEXT"
  /\ tvList # <<>> /\ finalRet = RetNone /\ IsError

\* C6 (as claimed): the line that closes a <text> block emits exactly one pair,
\* whose value is the raw text between the two markers, the fragments of
\* successive lines joined by one newline each; the state is READY afterwards.
TextBlockValueIsRawText ==
  [][ (lastOp' = "parse" /\ ClosesBlock(loaderState, lastLine'))
        => /\ loaderState' = "READY"
           /\ Len(tvList') = Len(tvList) + 1
           /\ Last(tvList')[2] = JoinNL(blockFrags') ]_vars

\* the fragments as the loader takes them: the opening line is trimmed before
\* its fragment is cut, so a block that continues on a later line loses the
\* whitespace that ends its opening line
TrimmedFrags(frags) ==
  IF Len(frags) <= 1 THEN frags ELSE <<RStrip(frags[1])>> \o Tail(frags)

\* C6 (amended): as claimed, except that the fragment of the opening line of a
\* block that continues on a later line is taken without the whitespace that
\* ends that line.
TextBlockValueTrimmedOpening ==
  [][ (lastOp' = "parse" /\ ClosesBlock(loaderState, lastLine'))
        => /\ loaderState' = "READY"
           /\ Len(tvList') = Len(tvList) + 1
           /\ Last(tvList')[2] = JoinNL(TrimmedFrags(blockFrags')) ]_vars

\* a block of three fragments closed: opening line, a middle line, closing line
TextBlockValue_Witness ==
  /\ lastOp = "parse" /\ prevState = "MIDTEXT" /\ loaderState = "READY"
  /\ Len(blockFrags) = 3
  /\ Last(tvList)[2] = <<"l", "1", "\n", " ", "m", " ", "\n", "l", "2">>

\* C7 (as claimed): a line met in READY that holds ':' and no <text> marker
\* (and is not skipped as a comment) emits exactly one pair: the text before
\* the first ':' trimmed on both sides, and the text after it trimmed.
TagAndValueAreTrimmed ==
  [][ (/\ lastOp' = "parse" /\ loaderState = "READY"
       /\ HasColon(lastLine') /\ ~IsCommentLine(lastLine')
       /\ ~Contains(lastLine', TextOpen))
        => tvList' = Append(tvList, << Trim(Before(lastLine', Colon)),
                                       Trim(After(lastLine', Colon)) >>) ]_vars

\* C25: in MIDTEXT a line without </text>, be it blank, a comment, with or
\* without ':', is appended whole with one newline to the buffered value,
\* emits no pair and leaves the state MIDTEXT; a line with </text> emits
\* exactly one pair, under the tag of the line that opened the block, whose
\* value ends with the text of the line before the marker, and the state is
\* READY.
MidtextAppendsUntilMarker ==
  [][ (lastOp' = "parse" /\ loaderState = "MIDTEXT") =>
        IF ~Contains(lastLine', TextClose)
        THEN /\ currentValue' = currentValue \o lastLine' \o NL
             /\ tvList' = tvList
             /\ loaderState' = "MIDTEXT"
        ELSE /\ Len(tvList') = Len(tvList) + 1
             /\ IsPrefix(tvList, tvList')
             /\ Last(tvList')[1] = Before(Trim(openLine), Colon)
             /\ EndsWith(Last(tvList')[2], Before(lastLine', TextClose))
             /\ loaderState' = "READY" ]_vars

\* a block opened under T, fed a comment line holding ':' and a line without
\* ':', then closed by a line that itself holds a tag and both markers
MidtextAppendsUntilMarker_Witness ==
  /\ lastOp = "parse" /\ prevState = "MIDTEXT" /\ loaderState = "READY"
  /\ lastLine = <<"U", ":", " ", "<", "t", "e", "x", "t", ">", " ", "x", " ", "<", "/", "t", "e", "x", "t", ">", "z">>
  /\ Len(blockFrags) = 4
  /\ blockFrags[2] = <<"#", "c", ":", "d">>
  /\ blockFrags[3] = <<"a", "b">>
  /\ tvList = << << <<"T">>, <<"l", "1", "\n", "#", "c", ":", "d", "\n", "a", "b", "\n", "U", ":", " ", "<", "t", "e", "x", "t", ">", " ", "x", " ">> >> >>

\* C27: after every call that leaves the loader in READY the buffered tag and
\* the buffered value are empty; a call leaves a non-empty buffered tag only
\* in MIDTEXT, or in ERROR when it is getFinalTVList called in MIDTEXT or when
\* the loader was in ERROR already and held that tag.
BuffersEmptyOutsideBlocks ==
  [][ /\ loaderState' = "READY" => currentTag' = <<>> /\ currentValue' = <<>>
      /\ currentTag' # <<>> =>
           \/ loaderState' = "MIDTEXT"
           \/ /\ loaderState' = "ERROR"
              /\ \/ loaderState = "MIDTEXT" /\ lastOp' = "final"
                 \/ loaderState = "ERROR" /\ currentTag' = currentTag ]_vars

\* a pair was pushed, a block opened, getFinalTVList called inside it and
\* one more line fed: the tag of the open block is still buffered, in ERROR
BuffersEmptyOutsideBlocks_Witness ==
  /\ lastOp = "parse" /\ prevState = "ERROR" /\ IsError
  /\ currentTag # <<>> /\ currentValue # <<>>
  /\ tvList # <<>>

\* ------------------------------------------------------------ Fossology parser claims
\* a line read by the loop inside a record block
ReadsInBlock == d2n' = d2n + 1 /\ d2pc = "loop" /\ d2state = "IN_FILE_SET"
\* the values of the entries of a tag, in source order
RECURSIVE ValuesOf(_, _)
ValuesOf(entries, key) ==
  IF entries = <<>> THEN <<>>
  ELSE (IF Head(entries)[1] = key THEN <<Head(entries)[2]>> ELSE <<>>)
       \o ValuesOf(Tail(entries), key)
\* the values of the FileChecksum entries `TYPE: value` of a type, in source order
RECURSIVE OfType(_, _)
OfType(values, type) ==
  IF values = <<>> THEN <<>>
  ELSE (IF HasColon(Head(values)) /\ Trim(Before(Head(values), Colon)) = type
        THEN <<Trim(After(Head(values), Colon))>> ELSE <<>>)
       \o OfType(Tail(values), type)
ChecksumValues(entries, type) == OfType(ValuesOf(entries, FileChecksumKey), type)
FirstOrNone(values) == IF values = <<>> THEN None ELSE Some(values[1])
LastOrNone(values) == IF values = <<>> THEN None ELSE Some(values[Len(values)])
JoinedValues(entries, key) ==
  IF ValuesOf(entries, key) = <<>> THEN None
  ELSE Some(Join(Semicolon, ValuesOf(entries, key)))
\* a sentinel read in a block that holds a FileChecksum entry
ClosesChecksumBlock ==
  /\ ReadsInBlock /\ IsSentinel(d2lastLine')
  /\ ValuesOf(d2entries, FileChecksumKey) # <<>>

\* C5: a report of K >= 1 well-formed record blocks followed by the terminator
\* returns exactly K records, the i-th holding the filename, license, sha1 and
\* md5 of the i-th block.
WellFormedBlocksGiveTheirRecords ==
  /\ d2pc # "raised"
  /\ d2pc = "returned" =>
       d2ret = RetList([i \in 1..BlockCount(d2file) |-> BlockRecord(i)])

\* a report of two blocks read to its terminator
WellFormedBlocks_Witness ==
  /\ d2pc = "returned" /\ d2state = "DONE"
  /\ BlockCount(d2file) = 2 /\ Len(d2ret.list) = 2
  /\ d2n = Len(d2file)

\* C8 (as claimed): the record closed takes the value of the FIRST SHA1 entry
\* and of the FIRST MD5 entry of its block; entries of other types or without
\* ':' change neither field and the record is appended all the same.
ChecksumIsFirstOfType ==
  [][ ClosesChecksumBlock
        => /\ Len(fds') = Len(fds) + 1
           /\ Last(fds').sha1 = FirstOrNone(ChecksumValues(d2entries, SHA1))
           /\ Last(fds').md5 = FirstOrNone(ChecksumValues(d2entries, MD5)) ]_vars

\* C8 (amended): the record closed takes the value of the LAST SHA1 entry and
\* of the LAST MD5 entry of its block; entries of other types or without ':'
\* change neither field and the record is appended all the same.
ChecksumIsLastOfType ==
  [][ ClosesChecksumBlock
        => /\ Len(fds') = Len(fds) + 1
           /\ IsPrefix(fds, fds')
           /\ Last(fds').sha1 = LastOrNone(ChecksumValues(d2entries, SHA1))
           /\ Last(fds').md5 = LastOrNone(ChecksumValues(d2entries, MD5)) ]_vars

\* a record closed over two SHA1 entries and an entry of another type
ChecksumIsLastOfType_Witness ==
  /\ fds # <<>>
  /\ Len(ChecksumValues(d2closed, SHA1)) = 2
  /\ Len(ValuesOf(d2closed, FileChecksumKey)) = 3
  /\ ChecksumValues(d2closed, SHA1)[1] # ChecksumValues(d2closed, SHA1)[2]
  /\ Last(fds).sha1 = Some(ChecksumValues(d2closed, SHA1)[2])

\* C9: the record closed has as filename all FileName values of its block
\* joined with ';' in source order, and as license all LicenseConcluded values
\* of its block joined the same way (None when the block holds none).
RepeatedTagsAreJoined ==
  [][ ClosesChecksumBlock
        => /\ Len(fds') = Len(fds) + 1
           /\ Last(fds').filename = JoinedValues(d2entries, FileNameKey)
           /\ Last(fds').license = JoinedValues(d2entries, LicenseConcludedKey) ]_vars

\* a record closed over two FileName lines
RepeatedTagsAreJoined_Witness ==
  /\ fds # <<>>
  /\ Len(ValuesOf(d2closed, FileNameKey)) = 2
  /\ Last(fds).filename = Some(<<"a", ";", "b">>)

\* C10: a non-blank line of a record block that is no sentinel and holds no
\* ':' changes nothing: state, tag map, record list and position stay as they
\* were, so the lines after it are read as if it were absent.
NoColonLineIsIgnored ==
  [][ (/\ ReadsInBlock
       /\ ~IsBlankLine(d2lastLine') /\ ~IsSentinel(d2lastLine')
       /\ ~HasColon(d2lastLine'))
        => UNCHANGED d2Vars ]_vars

\* a colon-less line read in a block that holds tags already
NoColonLineIsIgnored_Witness ==
  /\ d2lastLine = <<"z", "z">>
  /\ d2state = "IN_FILE_SET" /\ d2pc = "loop"
  /\ d2entries # <<>> /\ tagdict # EmptyDict

MissingTagGivesNone ==
  [][ (/\ ClosesChecksumBlock
       /\ \/ ValuesOf(d2entries, FileNameKey) = <<>>
          \/ ValuesOf(d2entries, LicenseConcludedKey) = <<>>)
        => /\ Len(fds') = Len(fds) + 1 /\ IsPrefix(fds, fds')
           /\ d2pc' # "raised"
           /\ Last(fds').filename =
                IF ValuesOf(d2entries, FileNameKey) = <<>> THEN None
                ELSE Some(Join(Semicolon, ValuesOf(d2entries, FileNameKey)))
           /\ Last(fds').license =
                IF ValuesOf(d2entries, LicenseConcludedKey) = <<>> THEN None
                ELSE Some(Join(Semicolon, ValuesOf(d2entries, LicenseConcludedKey)))
           /\ Last(fds').sha1 = LastOrNone(ChecksumValues(d2entries, SHA1))
           /\ Last(fds').md5 = LastOrNone(ChecksumValues(d2entries, MD5)) ]_vars

\* a record closed over a license and a checksum, with no FileName line
MissingTagGivesNone_Witness ==
  /\ Len(fds) = 1
  /\ ValuesOf(d2closed, FileNameKey) = <<>>
  /\ ValuesOf(d2closed, LicenseConcludedKey) # <<>>
  /\ fds[1].filename = None
  /\ fds[1].license = Some(<<"M">>)
  /\ fds[1].sha1 = Some(<<"1">>)

\* a tag line read by the loop inside a record block, its tag and its value
ReadsTagLine ==
  /\ ReadsInBlock
  /\ ~IsBlankLine(d2lastLine') /\ ~IsSentinel(d2lastLine') /\ HasColon(d2lastLine')
TagOf(line) == Trim(Before(line, Colon))
ValueOf(line) == Trim(After(line, Colon))

\* C13 (as claimed): reading a tag line starts the lookahead exactly when its
\* value opens with `<text>` and the line holds no `</text>`; a value that
\* holds both markers, also with text after `</text>`, is stored at once as
\* the value of its tag and no following line is consumed for it.
LookaheadOnlyWithoutClosingMarker ==
  [][ ReadsTagLine
        => /\ d2pc' = "lookahead"
                <=> (/\ StartsWith(ValueOf(d2lastLine'), TextOpen)
                     /\ ~Contains(ValueOf(d2lastLine'), TextClose))
           /\ (/\ StartsWith(ValueOf(d2lastLine'), TextOpen)
               /\ Contains(ValueOf(d2lastLine'), TextClose))
                => /\ d2pc' = "loop"
                   /\ HasKey(tagdict', TagOf(d2lastLine'))
                   /\ Last(tagdict'[TagOf(d2lastLine')]) = ValueOf(d2lastLine') ]_vars

\* the tag map the entries of a block give: each tag with its values in order
TagMap(entries) ==
  [k \in {entries[i][1] : i \in 1..Len(entries)} |-> ValuesOf(entries, k)]
\* a line read by the lookahead
ReadsInLookahead == d2n' = d2n + 1 /\ d2pc = "lookahead"

\* C14: a line the lookahead reads, be it `##File`, the terminator or a tag
\* line, closes no record, ends no parse and adds no entry: it is appended,
\* trimmed, to the open value, which is stored under its tag when the line ends
\* with `</text>`; the loop reads on from the line after that one.
LookaheadLinesAreOnlyAppended ==
  [][ ReadsInLookahead
        => /\ UNCHANGED <<fds, d2state, d2ret, d2exc>>
           /\ Len(d2entries') = Len(d2entries)
           /\ Last(d2entries') =
                <<Last(d2entries)[1], Last(d2entries)[2] \o Trim(d2lastLine')>>
           /\ IF EndsWith(Trim(d2lastLine'), TextClose)
              THEN d2pc' = "loop" /\ tagdict' = TagMap(d2entries')
              ELSE d2pc' = "lookahead" /\ tagdict' = tagdict ]_vars

\* a `##File` line read inside an open value, which the next line closed
LookaheadLinesAreOnlyAppended_Witness ==
  /\ d2n = 4 /\ d2pc = "loop" /\ d2state = "IN_FILE_SET"
  /\ d2lastLine = <<"y", "<", "/", "t", "e", "x", "t", ">">>
  /\ fds = <<>>
  /\ d2entries = << <<<<"T">>, <<"<", "t", "e", "x", "t", ">", "x", "#", "#", "F", "i", "l", "e", "y", "<", "/", "t", "e", "x", "t", ">">>>> >>
  /\ tagdict = TagMap(d2entries)

\* C15 (as claimed): when the report ends while the lookahead is still looking
\* for a line that ends with `</text>`, the parse returns a list, the records
\* closed before the open value; no exception leaves the function.
UnclosedTextReturnsList ==
  [][ (d2pc = "lookahead" /\ d2pc' \notin {"loop", "lookahead"})
        => /\ d2pc' = "returned"
           /\ d2exc' = "none"
           /\ d2ret' = RetList(fds) ]_vars

notTok == <<d1Vars, d2Vars, d2file, d2Hist, rpVars, dbVars, lsVars>>

TokReset == LoaderReset /\ UNCHANGED notTok

TokParse(line) == LoaderParse(line) /\ UNCHANGED notTok

TokFinal == LoaderFinal /\ UNCHANGED notTok

Next ==
  \/ TokReset
  \/ \E line \in TokLines : TokParse(line)
  \/ TokFinal

Spec == Init /\ [][Next]_vars

D2Spec == Init /\ [][D2Next]_vars

D2SumSpec == Init /\ [][D2SumNext]_vars

D2TextSpec == Init /\ [][D2TextNext]_vars

D2BlocksSpec == D2BlocksInit /\ [][D2BlocksNext]_vars

D2OpenSpec == D2OpenInit /\ [][D2OpenNext]_vars

\* C28: a record is appended only when a sentinel is read in a record block,
\* one record per sentinel; a report of K >= 1 blocks, each with its
\* FileChecksum lines, that ends without the terminator returns the records
\* of its first K-1 blocks and raises nothing: the tags of the last block
\* are dropped.
NoTerminatorDropsLastBlock ==
  [][ /\ fds' # fds =>
           /\ d2n' = d2n + 1 /\ ClosesRecord(d2lastLine')
           /\ Len(fds') = Len(fds) + 1 /\ IsPrefix(fds, fds')
      /\ (d2n = Len(d2file) /\ d2pc = "loop" /\ d2pc' # "loop") =>
           /\ d2pc' = "returned"
           /\ d2exc' = "none"
           /\ d2ret' = RetList([i \in 1..(BlockCount(d2file) - 1) |-> BlockRecord(i)]) ]_vars

\* a report of two blocks without terminator: the record of the first block
\* is returned, the tags of the second are still in tagdict
NoTerminatorDropsLastBlock_Witness ==
  /\ d2pc = "returned" /\ d2state = "IN_FILE_SET" /\ d2exc = "none"
  /\ BlockCount(d2file) = 2 /\ d2n = Len(d2file)
  /\ d2ret = RetList(<<BlockRecord(1)>>)
  /\ HasKey(tagdict, FileNameKey) /\ HasKey(tagdict, FileChecksumKey)

D1Lines == {
  <<"F", "i", "l", "e", "N", "a", "m", "e", ":", " ", "a">>,
  <<"F", "i", "l", "e", "N", "a", "m", "e", ":", " ", "b">>,
  <<"L", "i", "c", "e", "n", "s", "e", "C", "o", "n", "c", "l", "u", "d", "e", "d", ":", " ", "M">>,
  <<"L", "i", "c", "e", "n", "s", "e", "C", "o", "n", "c", "l", "u", "d", "e", "d", ":", " ", "G">>,
  <<"F", "i", "l", "e", "C", "h", "e", "c", "k", "s", "u", "m", ":", " ", "S", "H", "A", "1", ":", " ", "1">>,
  <<"F", "i", "l", "e", "C", "h", "e", "c", "k", "s", "u", "m", ":", " ", "M", "D", "5", ":", " ", "2">>,
  <<"F", "i", "l", "e", "C", "h", "e", "c", "k", "s", "u", "m", ":", " ", "S", "H", "A", "2", "5", "6", ":", " ", "3">>,
  <<"F", "i", "l", "e", "C", "h", "e", "c", "k", "s", "u", "m", ":", " ", "F", "O", "O", ":", " ", "4">>,
  <<"F", "i", "l", "e", "C", "h", "e", "c", "k", "s", "u", "m", ":", " ", "b", "a", "d">>,
  <<"O", "t", "h", "e", "r", ":", " ", "x">>,
  <<"T", ":", " ", "<", "t", "e", "x", "t", ">", "x">>,
  <<"z", "z">>
}

D1ReadLine(line) ==
  /\ d1pc = "reading"
  /\ LoaderParse(line)
  /\ UNCHANGED <<d1Vars, d2Vars, d2file, d2Hist, rpVars, dbVars, lsVars>>

D1Finish ==
  /\ d1pc = "reading"
  /\ LoaderFinal
  /\ d1pc' = "done"
  /\ d1fds' = ParseResult(finalRet')
  /\ UNCHANGED <<d2Vars, d2file, d2Hist, rpVars, dbVars, lsVars>>

D1Next ==
  \/ \E line \in D1Lines : D1ReadLine(line)
  \/ D1Finish

D1Spec == Init /\ [][D1Next]_vars

\* ------------------------------------------------------------ assembler claims
\* the positions of the FileName pairs, and the K-th of them
FileNameIdx(tv) == {i \in 1..Len(tv) : tv[i][1] = FileNameKey}
KthIdx(tv, K) ==
  CHOOSE i \in FileNameIdx(tv) : Cardinality({j \in FileNameIdx(tv) : j <= i}) = K
\* the pairs after the K-th FileName pair and before the next one
Segment(tv, K) ==
  SubSeq(tv, KthIdx(tv, K) + 1,
         IF K < Cardinality(FileNameIdx(tv)) THEN KthIdx(tv, K + 1) - 1 ELSE Len(tv))
LastOrEmpty(values) == IF values = <<>> THEN <<>> ELSE values[Len(values)]
SegmentRecord(tv, K) ==
  [filename |-> tv[KthIdx(tv, K)][2],
   license |-> LastOrEmpty(ValuesOf(Segment(tv, K), LicenseConcludedKey)),
   sha1 |-> LastOrEmpty(ChecksumValues(Segment(tv, K), SHA1)),
   md5 |-> LastOrEmpty(ChecksumValues(Segment(tv, K), MD5)),
   sha256 |-> LastOrEmpty(ChecksumValues(Segment(tv, K), SHA256))]

\* C4: when tokenization succeeds with N FileName pairs, the result holds N
\* records in the order of those pairs, the K-th set only from the pairs after
\* the K-th FileName pair and before the next one; a field with no such pair
\* is empty.
RecordsFollowFileNamePairs ==
  (d1pc = "done" /\ finalRet.kind = "list") =>
     /\ Len(d1fds) = Cardinality(FileNameIdx(tvList))
     /\ \A K \in 1..Len(d1fds) : d1fds[K] = SegmentRecord(tvList, K)

\* two records, the first with a license and a checksum, the second with none
RecordsFollowFileNamePairs_Witness ==
  /\ d1pc = "done" /\ finalRet.kind = "list"
  /\ Len(d1fds) = 2
  /\ d1fds[1].license # <<>> /\ d1fds[1].sha1 # <<>>
  /\ d1fds[2].license = <<>> /\ d1fds[2].sha1 = <<>>

\* C19: when the tokenizer has failed, on a colon-less line met in READY or on
\* input that ends inside an open <text> block, the parse returns no record,
\* whatever pairs were tokenized before the failure.
FailedTokenizerGivesNoRecords ==
  (d1pc = "done" /\ (malformedAt # 0 \/ prevState = "MIDTEXT"))
     => /\ finalRet = RetNone
        /\ d1fds = <<>>

\* a colon-less line met after a FileName block had been tokenized
FailedTokenizerGivesNoRecords_Witness ==
  /\ d1pc = "done" /\ malformedAt > 2
  /\ FileNameIdx(tvList) # {}
  /\ Assemble(tvList) # <<>>
  /\ d1fds = <<>>
=============================================================================
